---- MODULE Spec2Model ----
(***************************************************************************)
(* Model of hvd, the hypervisor management daemon: the command layer       *)
(* (commands.c), the VM and network lifecycle managers (vm_manager.c,      *)
(* network_manager.c), the storage layer (zfs_manager.c), the record       *)
(* store (xml_config.c) and the network daemon client                      *)
(* (netd_integration.c).                                                   *)
(*                                                                         *)
(* Every C function is an operator from a store (the record Cur below) to   *)
(* a result record [st, rc, ...].  The outcome of each call into the       *)
(* operating system, libzfs or the network daemon is drawn from a set F of *)
(* fault points chosen by the action: a point in F fails, the others       *)
(* succeed.                                                                *)
(***************************************************************************)
EXTENDS Integers, Sequences, FiniteSets, TLC

VARIABLES
    datasets,   \* the ZFS datasets that exist, each a path <<"vm", n, ...>>
    vmcfg,      \* /hv/vm/<n>/config.xml: the document on disk, or NoFile
    netcfg,     \* /hv/networks/<n>/config.xml: the document, or NoFile
    pidfile,    \* /hv/vm/<n>/state/pid: the recorded pid, or NoPid
    procs,      \* children of the daemon not yet reaped: pid -> [vm, status]
    nextPid,    \* the pid the next successful fork returns
    netd,       \* interfaces as last configured on the network daemon
    running,    \* hvd.c: the flag the signal handler clears
    hvd,        \* where the daemon is in server_loop() / handle_client()
    socks,      \* the client connections and the bytes on their way
    document,   \* a yang_netd_config_t a caller builds with yang_add_*()
    exchange,   \* a netd_send_yang_config() call in progress and its peer
    last        \* the call that was made last, its arguments and its result

vars ==
    <<datasets, vmcfg, netcfg, pidfile, procs, nextPid, netd, running, hvd, socks,
      document, exchange, last>>

----------------------------------------------------------------------------
(* Bounds of the model.                                                    *)

MaxPids == 2
MaxFaults == 2

VmNames == {"t"}
NetNames == {"net1"}
CpuValues == {2, 4, 33}
MemValues == {1024}
FibValues == {0, 10}
IfValues == {"em0"}
TapNames == {"tap0"}
Clients == {"c1", "c2"}

\* A network name of 57 characters.
LongNetNames == {"n01234567890123456789012345678901234567890123456789abcdef"}

\* A file that does not exist: no document, no recorded pid.
NoFile == [exists |-> FALSE]
NoPid == 0
NULL == "NULL"

\* Arguments of the yang_* and netd_add_* calls.  LongAddress fills the 64
\* bytes of an address slot and is no address at all.
LongAddress == "not-an-address-xxxxxxxxxxxxxxxxxxxxxxxxxxxxxxxxxxxxxxxxxxxxxxxx"
AddressInputs == {"192.168.1.1/24", "2001:db8::1/64", "bogus"}
FamilyInputs == {"ipv4", "ipv6"}
Ipv4Inputs ==
    {"192.168.1.1", "0.0.0.0", "255.255.255.255", "01.2.3.4", "256.1.1.1",
     "1.2.3", "1.2.3.", "1..2.3", "", "a.b.c.d", "1.2.3.4.5", "1.2.3.4x",
     "+1.2.3.4", "-1.2.3.4", "1.2.3.-4", " 1.2.3.4", "1. 2.3.4", "1.2.3.4 ",
     NULL}
Ipv6Inputs == {"::1", "2001:db8::1", "fe80:1", "1.2.3.4", "", NULL}
PrefixInputs ==
    {"192.168.1.0/24", "10.0.0.0/0", "10.0.0.0/32", "10.0.0.0/128",
     "10.0.0.0/129", "10.0.0.0", "10.0.0.0/", "/24", "10.0.0/24",
     "2001:db8::/64", "fe80:1/64", "::/0", "10.0.0.0/24/7", "10.0.0.0/24x",
     "10.0.0.0/x", "10.0.0.0/-1", "10.0.0.0/+8", "10.0.0.0/ 8",
     "10.0.0.0//8", NULL}

----------------------------------------------------------------------------
(* common.h                                                                *)

MAX_CMD_LEN == 4096
MAX_NAME_LEN == 64

\* yang_netd.h
NETD_YANG_NAMESPACE == "urn:netd:simple"
MAX_INTERFACES == 50
MAX_ROUTES == 100
MAX_ADDRESSES_PER_INTERFACE == 10

VM_STATE_STOPPED == "VM_STATE_STOPPED"
VM_STATE_RUNNING == "VM_STATE_RUNNING"
VM_STATE_PAUSED == "VM_STATE_PAUSED"
VM_STATE_ERROR == "VM_STATE_ERROR"

VmPath(n) == <<"vm", n>>
DisksPath(n) == <<"vm", n, "disks">>
StatePath(n) == <<"vm", n, "state">>
NetworkPath(n) == <<"networks", n>>

----------------------------------------------------------------------------
(* The store the functions work on.                                        *)

Cur ==
    [ds |-> datasets, vmcfg |-> vmcfg, netcfg |-> netcfg, pidfile |-> pidfile,
     procs |-> procs, nextPid |-> nextPid, netd |-> netd]

\* The characters of a string.
Spell(tok) == [i \in 1..Len(tok) |-> SubSeq(tok, i, i)]

IsPrefix(p, q) == Len(p) <= Len(q) /\ SubSeq(q, 1, Len(p)) = p

\* printf("%d") and atoi(): a number is written as its decimal digits and
\* read back digit by digit up to the first character that is not a digit.
DigitChars == <<"0", "1", "2", "3", "4", "5", "6", "7", "8", "9">>

IsDigit(c) == \E d \in 1..10 : DigitChars[d] = c

DigitVal(c) == (CHOOSE d \in 1..10 : DigitChars[d] = c) - 1

RECURSIVE Digits(_)
Digits(n) ==
    IF n < 10 THEN <<DigitChars[n + 1]>>
    ELSE Digits(n \div 10) \o <<DigitChars[(n % 10) + 1]>>

FmtDec(i) == IF i < 0 THEN <<"-">> \o Digits(-i) ELSE Digits(i)

RECURSIVE AtoiFrom(_, _, _)
AtoiFrom(s, i, acc) ==
    IF i > Len(s) \/ ~IsDigit(s[i]) THEN acc
    ELSE AtoiFrom(s, i + 1, acc * 10 + DigitVal(s[i]))

atoi(s) ==
    IF Len(s) > 0 /\ s[1] = "-" THEN -AtoiFrom(s, 2, 0)
    ELSE IF Len(s) > 0 /\ s[1] = "+" THEN AtoiFrom(s, 2, 0)
    ELSE AtoiFrom(s, 1, 0)

\* The value of an int taken as unsigned (uint32_t x = atoi(..), strtoull of
\* a negative number).  A negative value wraps to 2^32 - |v| or 2^64 - |v|,
\* above every limit the program compares with; the checker's integers end
\* at 2^31 - 1, which stands for all of these.
AsUnsigned(v) == IF v < 0 THEN (2 ^ 30 - 1) * 2 + 1 ELSE v

\* strtoull(s, NULL, 10) into a uint64_t.
strtoull(s) == AsUnsigned(atoi(s))

----------------------------------------------------------------------------
(* zfs_manager.c                                                           *)

\* Destroying a dataset takes what is stored in it with it: the datasets
\* below it and the files kept in their directories.
RemoveTree(st, path) ==
    LET gone(p) == IsPrefix(path, p)
    IN [st EXCEPT
          !.ds = {d \in st.ds : ~gone(d)},
          !.vmcfg = [n \in DOMAIN st.vmcfg |->
                        IF gone(VmPath(n)) THEN NoFile ELSE st.vmcfg[n]],
          !.pidfile = [n \in DOMAIN st.pidfile |->
                        IF gone(StatePath(n)) THEN NoPid ELSE st.pidfile[n]],
          !.netcfg = [n \in DOMAIN st.netcfg |->
                        IF gone(NetworkPath(n)) THEN NoFile ELSE st.netcfg[n]]]

zfs_create_dataset(st, dataset, F, fp) ==
    IF "libzfs_init" \in F THEN [st |-> st, rc |-> -1]
    ELSE IF dataset \in st.ds THEN [st |-> st, rc |-> 0]
    ELSE IF fp \in F \/ SubSeq(dataset, 1, Len(dataset) - 1) \notin st.ds
         THEN [st |-> st, rc |-> -1]
    ELSE [st |-> [st EXCEPT !.ds = @ \cup {dataset}], rc |-> 0]

zfs_destroy_dataset(st, dataset, F, fp) ==
    IF "libzfs_init" \in F THEN [st |-> st, rc |-> -1]
    ELSE IF dataset \notin st.ds THEN [st |-> st, rc |-> 0]
    ELSE IF fp \in F THEN [st |-> st, rc |-> -1]
    ELSE [st |-> RemoveTree(st, dataset), rc |-> 0]

zfs_create_vm_structure(st, vm_name, F) ==
    LET vm_path == VmPath(vm_name)
        disks_path == DisksPath(vm_name)
        state_path == StatePath(vm_name)
        r1 == zfs_create_dataset(st, vm_path, F, "zfs_create:vm")
        r2 == zfs_create_dataset(r1.st, disks_path, F, "zfs_create:disks")
        r3 == zfs_create_dataset(r2.st, state_path, F, "zfs_create:state")
    IN  IF r1.rc # 0 THEN [st |-> r1.st, rc |-> -1]
        ELSE IF r2.rc # 0 THEN
            [st |-> zfs_destroy_dataset(r2.st, vm_path, F, "zfs_destroy:vm").st,
             rc |-> -1]
        ELSE IF r3.rc # 0 THEN
            LET d1 == zfs_destroy_dataset(r3.st, disks_path, F, "zfs_destroy:disks")
                d2 == zfs_destroy_dataset(d1.st, vm_path, F, "zfs_destroy:vm")
            IN [st |-> d2.st, rc |-> -1]
        ELSE [st |-> r3.st, rc |-> 0]

zfs_create_network_structure(st, network_name, F) ==
    LET r1 == zfs_create_dataset(st, NetworkPath(network_name), F, "zfs_create:network")
    IN  IF r1.rc # 0 THEN [st |-> r1.st, rc |-> -1]
        ELSE [st |-> r1.st, rc |-> 0]

----------------------------------------------------------------------------
(* xml_config.c                                                            *)

StateStr(state) ==
    CASE state = VM_STATE_RUNNING -> "running"
      [] state = VM_STATE_PAUSED -> "paused"
      [] state = VM_STATE_ERROR -> "error"
      [] OTHER -> "stopped"

ParseState(text) ==
    IF text = "running" THEN VM_STATE_RUNNING
    ELSE IF text = "paused" THEN VM_STATE_PAUSED
    ELSE IF text = "error" THEN VM_STATE_ERROR
    ELSE VM_STATE_STOPPED

\* fopen(config_path, "w") needs the directory of the VM's dataset.
xml_save_vm_config(st, vm, F) ==
    IF "xml_save" \in F \/ VmPath(vm.name) \notin st.ds
    THEN [st |-> st, rc |-> -1]
    ELSE [st |-> [st EXCEPT !.vmcfg[vm.name] =
                    [name |-> vm.name,
                     cpu |-> FmtDec(vm.cpu_cores),
                     memory |-> FmtDec(vm.memory_mb),
                     boot_device |-> vm.boot_device,
                     state |-> StateStr(vm.state)]],
          rc |-> 0]

xml_load_vm_config(st, vm_name, F) ==
    IF vm_name \notin DOMAIN st.vmcfg \/ st.vmcfg[vm_name] = NoFile
       \/ "xml_load" \in F
    THEN [rc |-> -1, vm |-> NULL]
    ELSE LET doc == st.vmcfg[vm_name]
         IN [rc |-> 0,
             vm |-> [name |-> doc.name,
                     cpu_cores |-> atoi(doc.cpu),
                     memory_mb |-> strtoull(doc.memory),
                     boot_device |-> doc.boot_device,
                     state |-> ParseState(doc.state)]]

xml_save_network_config(st, network, F) ==
    IF "xml_save" \in F \/ NetworkPath(network.name) \notin st.ds
    THEN [st |-> st, rc |-> -1]
    ELSE [st |-> [st EXCEPT !.netcfg[network.name] =
                    [name |-> network.name,
                     type |-> "bridge",
                     fib_id |-> FmtDec(network.fib_id),
                     physical_interface |-> network.physical_interface,
                     bridge_name |-> network.bridge_name]],
          rc |-> 0]

xml_load_network_config(st, network_name, F) ==
    IF network_name \notin DOMAIN st.netcfg \/ st.netcfg[network_name] = NoFile
       \/ "xml_load" \in F
    THEN [rc |-> -1, network |-> NULL]
    ELSE LET doc == st.netcfg[network_name]
         IN [rc |-> 0,
             network |-> [name |-> doc.name,
                          type |-> "NETWORK_TYPE_BRIDGE",
                          fib_id |-> atoi(doc.fib_id),
                          physical_interface |-> doc.physical_interface,
                          bridge_name |-> doc.bridge_name]]

----------------------------------------------------------------------------
(* vm_manager.c                                                            *)

\* create_vmm_device() only looks whether /dev/vmm/<name> exists and
\* returns 0 either way.
create_vmm_device(vm_name) == 0

vm_create(st, vm_name, cpu_cores, memory_mb, F) ==
    LET r1 == zfs_create_vm_structure(st, vm_name, F)
        vm == [name |-> vm_name, cpu_cores |-> cpu_cores,
               memory_mb |-> memory_mb, boot_device |-> "disk0",
               state |-> VM_STATE_STOPPED]
        r2 == xml_save_vm_config(r1.st, vm, F)
    IN  IF r1.rc # 0 THEN
            [st |-> r1.st, rc |-> -1, calls |-> <<"zfs_create_vm_structure">>]
        ELSE IF r2.rc # 0 THEN
            [st |-> zfs_destroy_dataset(r2.st, VmPath(vm_name), F, "zfs_destroy:vm").st,
             rc |-> -1,
             calls |-> <<"zfs_create_vm_structure", "xml_save_vm_config",
                         "zfs_destroy_dataset">>]
        ELSE IF create_vmm_device(vm_name) # 0 THEN
            [st |-> zfs_destroy_dataset(r2.st, VmPath(vm_name), F, "zfs_destroy:vm").st,
             rc |-> -1,
             calls |-> <<"zfs_create_vm_structure", "xml_save_vm_config",
                         "create_vmm_device", "zfs_destroy_dataset">>]
        ELSE
            [st |-> r2.st, rc |-> 0,
             calls |-> <<"zfs_create_vm_structure", "xml_save_vm_config",
                         "create_vmm_device">>]

\* fopen(pid_file, "w") needs the directory of the state dataset.
WritePid(st, vm_name, pid, F) ==
    IF "pid_write" \in F \/ StatePath(vm_name) \notin st.ds THEN st
    ELSE [st EXCEPT !.pidfile[vm_name] = pid]

\* A vm_start that records Running before it has a process.
vm_start_eager(st, vm_name, F) ==
    LET l == xml_load_vm_config(st, vm_name, F)
    IN  IF l.rc # 0 THEN
            [st |-> st, rc |-> -1, calls |-> <<"xml_load_vm_config">>]
        ELSE IF l.vm.state = VM_STATE_RUNNING THEN
            [st |-> st, rc |-> 0, calls |-> <<"xml_load_vm_config">>]
        ELSE IF "open_vmm" \in F THEN
            [st |-> st, rc |-> -1, calls |-> <<"xml_load_vm_config", "open">>]
        ELSE
            LET vm == [l.vm EXCEPT !.state = VM_STATE_RUNNING]
                saved == xml_save_vm_config(st, vm, F).st
                pid == st.nextPid
                forked == [saved EXCEPT
                             !.procs = [p \in DOMAIN st.procs \cup {pid} |->
                                          IF p = pid
                                          THEN [vm |-> vm_name, status |-> "running"]
                                          ELSE st.procs[p]],
                             !.nextPid = pid + 1]
            IN  IF "fork" \in F THEN
                    [st |-> saved, rc |-> -1,
                     calls |-> <<"xml_load_vm_config", "open", "fork">>]
                ELSE
                    [st |-> WritePid(forked, vm_name, pid, F), rc |-> 0,
                     calls |-> <<"xml_load_vm_config", "open", "fork",
                                 "xml_save_vm_config", "write_pid">>]

vm_start(st, vm_name, F) ==
    LET l == xml_load_vm_config(st, vm_name, F)
    IN  IF l.rc # 0 THEN
            [st |-> st, rc |-> -1, calls |-> <<"xml_load_vm_config">>]
        ELSE IF l.vm.state = VM_STATE_RUNNING THEN
            [st |-> st, rc |-> 0, calls |-> <<"xml_load_vm_config">>]
        ELSE IF "open_vmm" \in F THEN
            [st |-> st, rc |-> -1, calls |-> <<"xml_load_vm_config", "open">>]
        ELSE IF "fork" \in F THEN
            [st |-> st, rc |-> -1,
             calls |-> <<"xml_load_vm_config", "open", "fork">>]
        ELSE
            LET pid == st.nextPid
                forked == [st EXCEPT
                             !.procs = [p \in DOMAIN st.procs \cup {pid} |->
                                          IF p = pid
                                          THEN [vm |-> vm_name, status |-> "running"]
                                          ELSE st.procs[p]],
                             !.nextPid = pid + 1]
                vm == [l.vm EXCEPT !.state = VM_STATE_RUNNING]
                saved == xml_save_vm_config(forked, vm, F).st
            IN  [st |-> WritePid(saved, vm_name, pid, F), rc |-> 0,
                 calls |-> <<"xml_load_vm_config", "open", "fork",
                             "xml_save_vm_config", "write_pid">>]

\* The wait after the stop request: waitpid(WNOHANG), sleep(2),
\* waitpid(WNOHANG), kill(SIGKILL), waitpid().  waitpid() answers -1 for a
\* pid that is not an unreaped child, 0 for a child that still runs.
WaitForExit(st, pid, F) ==
    IF pid \notin DOMAIN st.procs THEN
        [st |-> st, steps |-> <<"waitpid_nohang">>]
    ELSE
        LET reaped == [st EXCEPT !.procs =
                          [p \in DOMAIN st.procs \ {pid} |-> st.procs[p]]]
            alive == st.procs[pid].status = "running"
        IN  IF ~(alive /\ "alive_poll1" \in F) THEN
                [st |-> reaped, steps |-> <<"waitpid_nohang">>]
            ELSE IF "alive_poll2" \notin F THEN
                [st |-> reaped,
                 steps |-> <<"waitpid_nohang", "sleep", "waitpid_nohang">>]
            ELSE
                [st |-> reaped,
                 steps |-> <<"waitpid_nohang", "sleep", "waitpid_nohang",
                             "SIGKILL", "waitpid">>]

Unlink(st, vm_name, F) ==
    IF "unlink" \in F THEN st ELSE [st EXCEPT !.pidfile[vm_name] = NoPid]

vm_stop(st, vm_name, F) ==
    LET l == xml_load_vm_config(st, vm_name, F)
    IN  IF l.rc # 0 THEN
            [st |-> st, rc |-> -1, calls |-> <<"xml_load_vm_config">>]
        ELSE IF l.vm.state # VM_STATE_RUNNING THEN
            [st |-> st, rc |-> 0, calls |-> <<"xml_load_vm_config">>]
        ELSE IF "pid_read" \in F \/ st.pidfile[vm_name] = NoPid THEN
            [st |-> st, rc |-> -1, calls |-> <<"xml_load_vm_config", "read_pid">>]
        ELSE
            LET pid == st.pidfile[vm_name]
                \* VM_SUSPEND through /dev/vmm/<name> when the device opens
                \* and the ioctl succeeds, SIGTERM otherwise.
                suspended == "open_vmm" \notin F /\ "vm_suspend" \notin F
                request == IF suspended THEN <<"VM_SUSPEND">> ELSE <<"SIGTERM">>
                pre == <<"xml_load_vm_config", "read_pid">> \o request
            IN  IF ~suspended /\ pid \notin DOMAIN st.procs THEN
                    [st |-> st, rc |-> -1, calls |-> pre]
                ELSE
                    LET w == WaitForExit(st, pid, F)
                        vm == [l.vm EXCEPT !.state = VM_STATE_STOPPED]
                        saved == xml_save_vm_config(w.st, vm, F).st
                    IN  [st |-> Unlink(saved, vm_name, F), rc |-> 0,
                         calls |-> pre \o w.steps
                                   \o <<"xml_save_vm_config", "unlink">>]

\* A vm_destroy that gives up when the VM could not be stopped.
vm_destroy_strict(st, vm_name, F) ==
    LET s == vm_stop(st, vm_name, F)
        d == zfs_destroy_dataset(s.st, VmPath(vm_name), F, "zfs_destroy:vm")
    IN  IF s.rc # 0 THEN
            [st |-> s.st, rc |-> -1, stop_rc |-> s.rc, calls |-> <<"vm_stop">>]
        ELSE
            [st |-> d.st, rc |-> IF d.rc # 0 THEN -1 ELSE 0, stop_rc |-> s.rc,
             calls |-> <<"vm_stop", "zfs_destroy_dataset">>]

vm_destroy(st, vm_name, F) ==
    LET s == vm_stop(st, vm_name, F)
        d == zfs_destroy_dataset(s.st, VmPath(vm_name), F, "zfs_destroy:vm")
    IN  [st |-> d.st, rc |-> IF d.rc # 0 THEN -1 ELSE 0, stop_rc |-> s.rc,
         calls |-> <<"vm_stop", "zfs_destroy_dataset">>]

vm_show(st, vm_name, F) ==
    LET l == xml_load_vm_config(st, vm_name, F)
    IN  IF l.rc # 0 THEN [rc |-> -1, out |-> <<>>]
        ELSE [rc |-> 0,
              out |-> [VM |-> l.vm.name,
                       CPU |-> FmtDec(l.vm.cpu_cores),
                       Memory |-> FmtDec(l.vm.memory_mb),
                       BootDevice |-> l.vm.boot_device,
                       State |-> StateStr(l.vm.state)]]

----------------------------------------------------------------------------
(* netd_integration.c                                                      *)

\* The network daemon takes over every interface of a document it receives.
NetdApply(nd, config) ==
    LET named == {config.interfaces[i].name : i \in DOMAIN config.interfaces}
        entry(nm) == LET i == CHOOSE j \in DOMAIN config.interfaces :
                                 config.interfaces[j].name = nm
                                 /\ \A k \in DOMAIN config.interfaces :
                                      config.interfaces[k].name = nm => k <= j
                     IN [enabled |-> config.interfaces[i].enabled,
                         fib |-> config.interfaces[i].fib]
    IN [nm \in DOMAIN nd \cup named |-> IF nm \in named THEN entry(nm) ELSE nd[nm]]

\* socket/connect/send fail before the document is delivered; recv fails
\* (or the announced response is too large) after it was.  The text of the
\* response is never looked at, so a daemon that answers with a refusal is
\* taken for a success.
netd_send_yang_config(st, config, F) ==
    IF "netd_connect" \in F THEN [st |-> st, rc |-> -1]
    ELSE LET applied == IF "netd_refuse" \in F THEN st
                        ELSE [st EXCEPT !.netd = NetdApply(@, config)]
         IN  IF "netd_recv" \in F THEN [st |-> applied, rc |-> -1]
             ELSE [st |-> applied, rc |-> 0]

\* A document of one interface without addresses is a few hundred bytes
\* and always fits the 8192-byte buffer, so the generation step succeeds.
netd_configure_bridge(st, bridge_name, fib_id, F) ==
    LET config == [interfaces |-> <<[name |-> bridge_name, enabled |-> 1,
                                     fib |-> fib_id, addresses |-> <<>>]>>,
                   routes |-> <<>>]
        r == netd_send_yang_config(st, config, F)
    IN  IF r.rc # 0 THEN [st |-> r.st, rc |-> -1] ELSE [st |-> r.st, rc |-> 0]

netd_remove_bridge(st, bridge_name, F) ==
    LET config == [interfaces |-> <<[name |-> bridge_name, enabled |-> 0,
                                     fib |-> 0, addresses |-> <<>>]>>,
                   routes |-> <<>>]
        r == netd_send_yang_config(st, config, F)
    IN  IF r.rc # 0 THEN [st |-> r.st, rc |-> -1] ELSE [st |-> r.st, rc |-> 0]

\* yang_netd_config_t config = {0}
EmptyConfig == [interfaces |-> <<>>, routes |-> <<>>]

\* strncpy(dst, src, sizeof(dst) - 1) into a zeroed field of size bytes.
Strncpy(src, size) ==
    IF Len(src) <= size - 1 THEN src ELSE SubSeq(src, 1, size - 1)

\* The document of a tap holds its name, enabled and the FIB; bridge_name
\* goes into the log line only.
netd_configure_tap(st, tap_name, bridge_name, fib_id, F) ==
    LET config == [interfaces |-> <<[name |-> Strncpy(tap_name, MAX_NAME_LEN),
                                     enabled |-> 1, fib |-> fib_id,
                                     addresses |-> <<>>]>>,
                   routes |-> <<>>]
        r == netd_send_yang_config(st, config, F)
    IN  IF r.rc # 0 THEN [st |-> r.st, rc |-> -1, config |-> config]
        ELSE [st |-> r.st, rc |-> 0, config |-> config]

netd_remove_tap(st, tap_name, F) ==
    LET config == [interfaces |-> <<[name |-> Strncpy(tap_name, MAX_NAME_LEN),
                                     enabled |-> 0, fib |-> 0,
                                     addresses |-> <<>>]>>,
                   routes |-> <<>>]
        r == netd_send_yang_config(st, config, F)
    IN  IF r.rc # 0 THEN [st |-> r.st, rc |-> -1] ELSE [st |-> r.st, rc |-> 0]

\* A call snprintf(xml_buffer + offset, buffer_size - offset, ...) whose
\* formatted text has n characters.  offset and buffer_size are size_t: when
\* offset is above buffer_size the difference wraps around to a size near
\* 2^64 and the text is written past the end of the buffer.
Snprintf(g, buffer_size, n) ==
    [offset |-> g.offset + n,
     wrapped |-> g.wrapped \/ g.offset > buffer_size]

InterfaceHeadLen(interface) ==
    Len("<interface xmlns=\"") + Len(NETD_YANG_NAMESPACE)
    + Len("\">\n  <name>") + Len(interface.name)
    + Len("</name>\n  <enabled>")
    + Len(IF interface.enabled # 0 THEN "true" ELSE "false")
    + Len("</enabled>\n  <fib>") + Len(FmtDec(interface.fib))
    + Len("</fib>\n")

AddressLen(address) ==
    Len("  <address>\n    <ip>") + Len(address.ip)
    + Len("</ip>\n    <family>") + Len(address.family)
    + Len("</family>\n  </address>\n")

RECURSIVE GenerateAddresses(_, _, _, _)
GenerateAddresses(interface, i, g, buffer_size) ==
    IF i > Len(interface.addresses) THEN g
    ELSE GenerateAddresses(interface, i + 1,
             Snprintf(g, buffer_size, AddressLen(interface.addresses[i])),
             buffer_size)

yang_generate_interface_xml(interface, buffer_size) ==
    LET head == Snprintf([offset |-> 0, wrapped |-> FALSE], buffer_size,
                         InterfaceHeadLen(interface))
        body == GenerateAddresses(interface, 1, head, buffer_size)
        g == Snprintf(body, buffer_size, Len("</interface>\n"))
    IN  [rc |-> IF g.offset < buffer_size THEN 0 ELSE -1,
         offset |-> g.offset, wrapped |-> g.wrapped]

yang_generate_route_xml(route, buffer_size) ==
    LET offset == Len("<route xmlns=\"") + Len(NETD_YANG_NAMESPACE)
                  + Len("\">\n  <destination>") + Len(route.destination)
                  + Len("</destination>\n  <gateway>") + Len(route.gateway)
                  + Len("</gateway>\n  <fib>") + Len(FmtDec(route.fib))
                  + Len("</fib>\n  <description>") + Len(route.description)
                  + Len("</description>\n</route>\n")
    IN  [rc |-> IF offset < buffer_size THEN 0 ELSE -1, offset |-> offset]

\* The loops of yang_generate_config_xml().  The result tells whether the
\* text fits (rc), where the write offset ended, the highest value the
\* write offset took in any of the buffers compared with that buffer's
\* size (over), and whether a remaining-capacity subtraction wrapped.
RECURSIVE GenerateInterfaces(_, _, _, _)
GenerateInterfaces(config, i, offset, buffer_size) ==
    IF i > Len(config.interfaces)
    THEN [rc |-> 0, offset |-> offset, wrapped |-> FALSE, over |-> FALSE]
    ELSE LET x == yang_generate_interface_xml(config.interfaces[i], 1024)
         IN  IF x.rc # 0
             THEN [rc |-> -1, offset |-> offset, wrapped |-> x.wrapped,
                   over |-> x.offset > 1024]
             ELSE IF offset + x.offset >= buffer_size
             THEN [rc |-> -1, offset |-> offset + x.offset, wrapped |-> FALSE,
                   over |-> FALSE]
             ELSE GenerateInterfaces(config, i + 1, offset + x.offset,
                                     buffer_size)

RECURSIVE GenerateRoutes(_, _, _, _)
GenerateRoutes(config, i, offset, buffer_size) ==
    IF i > Len(config.routes)
    THEN [rc |-> 0, offset |-> offset, wrapped |-> FALSE, over |-> FALSE]
    ELSE LET x == yang_generate_route_xml(config.routes[i], 512)
         IN  IF x.rc # 0 \/ offset + x.offset >= buffer_size
             THEN [rc |-> -1, offset |-> offset, wrapped |-> FALSE,
                   over |-> FALSE]
             ELSE GenerateRoutes(config, i + 1, offset + x.offset, buffer_size)

yang_generate_config_xml(config, buffer_size) ==
    LET head == Len("<?xml version=\"1.0\" encoding=\"UTF-8\"?>\n")
                + Len("<netd-config xmlns=\"") + Len(NETD_YANG_NAMESPACE)
                + Len("\">\n")
        ifs == GenerateInterfaces(config, 1, head, buffer_size)
        rts == GenerateRoutes(config, 1, ifs.offset, buffer_size)
        offset == rts.offset + Len("</netd-config>\n")
    IN  IF head >= buffer_size
        THEN [rc |-> -1, offset |-> head, wrapped |-> FALSE, over |-> FALSE]
        ELSE IF ifs.rc # 0 THEN ifs
        ELSE IF rts.rc # 0 THEN rts
        ELSE [rc |-> IF offset < buffer_size THEN 0 ELSE -1,
              offset |-> offset, wrapped |-> FALSE, over |-> FALSE]

\* An interface with one address renders to less than 1024 bytes and the
\* document to less than 8192, so the generation step succeeds here.
netd_add_interface_address(st, interface_name, ip_address, family, F) ==
    LET config == [interfaces |->
                     <<[name |-> Strncpy(interface_name, MAX_NAME_LEN),
                        enabled |-> 1, fib |-> 0,
                        addresses |-> <<[ip |-> Strncpy(ip_address, 64),
                                         family |-> Strncpy(family, 8)]>>]>>,
                   routes |-> <<>>]
        x == yang_generate_config_xml(config, 8192)
        r == netd_send_yang_config(st, config, F)
    IN  IF x.rc # 0 THEN [st |-> st, rc |-> -1, config |-> config, sent |-> FALSE]
        ELSE [st |-> r.st, rc |-> IF r.rc # 0 THEN -1 ELSE 0,
              config |-> config, sent |-> "netd_connect" \notin F]

\* An add that lets one interface more than MAX_INTERFACES in.
yang_add_interface_off_by_one(config, name, enabled, fib) ==
    IF Len(config.interfaces) > MAX_INTERFACES
    THEN [config |-> config, rc |-> -1]
    ELSE [config |-> [config EXCEPT !.interfaces =
                         Append(@, [name |-> Strncpy(name, MAX_NAME_LEN),
                                    enabled |-> enabled, fib |-> fib,
                                    addresses |-> <<>>])],
          rc |-> Len(config.interfaces)]

yang_add_interface(config, name, enabled, fib) ==
    IF Len(config.interfaces) >= MAX_INTERFACES
    THEN [config |-> config, rc |-> -1]
    ELSE [config |-> [config EXCEPT !.interfaces =
                         Append(@, [name |-> Strncpy(name, MAX_NAME_LEN),
                                    enabled |-> enabled, fib |-> fib,
                                    addresses |-> <<>>])],
          rc |-> Len(config.interfaces)]

\* interface_index counts from 0.
yang_add_interface_address(config, interface_index, ip_address, family) ==
    IF interface_index < 0 \/ interface_index >= Len(config.interfaces)
    THEN [config |-> config, rc |-> -1]
    ELSE IF Len(config.interfaces[interface_index + 1].addresses)
                >= MAX_ADDRESSES_PER_INTERFACE
    THEN [config |-> config, rc |-> -1]
    ELSE [config |-> [config EXCEPT !.interfaces[interface_index + 1].addresses =
                         Append(@, [ip |-> Strncpy(ip_address, 64),
                                    family |-> Strncpy(family, 8)])],
          rc |-> 0]

yang_add_route(config, destination, gateway, fib, description) ==
    IF Len(config.routes) >= MAX_ROUTES
    THEN [config |-> config, rc |-> -1]
    ELSE [config |-> [config EXCEPT !.routes =
                         Append(@, [destination |-> Strncpy(destination, 64),
                                    gateway |-> Strncpy(gateway, 64),
                                    fib |-> fib,
                                    description |->
                                        IF description = NULL THEN ""
                                        ELSE Strncpy(description, MAX_NAME_LEN)])],
          rc |-> 0]

\* sscanf(): white space a %d skips.
IsSpace(c) == c \in {" ", "\t", "\n"}

RECURSIVE SkipSpace(_, _)
SkipSpace(s, i) ==
    IF i <= Len(s) /\ IsSpace(s[i]) THEN SkipSpace(s, i + 1) ELSE i

RECURSIVE DigitsEnd(_, _)
DigitsEnd(s, i) ==
    IF i <= Len(s) /\ IsDigit(s[i]) THEN DigitsEnd(s, i + 1) ELSE i

\* One %d of sscanf() read from s at position i: leading white space, an
\* optional sign, then at least one digit.  next is where reading goes on.
ScanInt(s, i) ==
    LET j == SkipSpace(s, i)
        signed == j <= Len(s) /\ s[j] \in {"+", "-"}
        k == IF signed THEN j + 1 ELSE j
    IN  IF k > Len(s) \/ ~IsDigit(s[k])
        THEN [ok |-> FALSE, val |-> 0, next |-> k]
        ELSE [ok |-> TRUE,
              val |-> IF signed /\ s[j] = "-" THEN -AtoiFrom(s, k, 0)
                      ELSE AtoiFrom(s, k, 0),
              next |-> DigitsEnd(s, k)]

\* sscanf(s, "%d.%d. ... %d", ...) with left conversions still to make: the
\* values converted so far.  Reading stops at the first directive that does
\* not match; what follows the last conversion is never looked at.
RECURSIVE ScanOctets(_, _, _, _)
ScanOctets(s, i, left, octets) ==
    LET r == ScanInt(s, i)
    IN  IF ~r.ok THEN octets
        ELSE IF left = 1 THEN Append(octets, r.val)
        ELSE IF r.next <= Len(s) /\ s[r.next] = "."
        THEN ScanOctets(s, r.next + 1, left - 1, Append(octets, r.val))
        ELSE Append(octets, r.val)

yang_validate_ipv4_address(address) ==
    IF address = NULL THEN -1
    ELSE LET octets == ScanOctets(Spell(address), 1, 4, <<>>)
         IN  IF Len(octets) # 4 THEN -1
             ELSE IF \E i \in 1..4 : octets[i] < 0 \/ octets[i] > 255 THEN -1
             ELSE 0

yang_validate_ipv6_address(address) ==
    IF address = NULL THEN -1
    ELSE LET s == Spell(address)
             colon_count == Cardinality({i \in 1..Len(s) : s[i] = ":"})
         IN  IF colon_count >= 2 THEN 0 ELSE -1

\* strchr(): the position of the first c in s, 0 when there is none.
Strchr(s, c) ==
    IF \E i \in 1..Len(s) : s[i] = c
    THEN CHOOSE i \in 1..Len(s) : s[i] = c /\ \A j \in 1..(i - 1) : s[j] # c
    ELSE 0

yang_validate_ip_prefix(prefix) ==
    IF prefix = NULL THEN -1
    ELSE LET s == Spell(prefix)
             slash == Strchr(s, "/")
             addr_len == slash - 1
             address == SubSeq(prefix, 1, addr_len)
             prefix_len == ScanInt(s, slash + 1)
         IN  IF slash = 0 THEN -1
             ELSE IF addr_len >= 64 THEN -1
             ELSE IF ~prefix_len.ok THEN -1
             ELSE IF prefix_len.val < 0 \/ prefix_len.val > 128 THEN -1
             ELSE IF Strchr(Spell(address), ":") # 0
             THEN yang_validate_ipv6_address(address)
             ELSE yang_validate_ipv4_address(address)

----------------------------------------------------------------------------
(* network_manager.c                                                       *)

\* snprintf(bridge_name, ..., "bridge_%s", network_name)
\* snprintf(network.bridge_name, sizeof(network.bridge_name), "bridge_%s", ..)
\* keeps at most MAX_NAME_LEN - 1 characters.
BridgeName(network_name) ==
    LET full == "bridge_" \o network_name
    IN  IF Len(full) <= MAX_NAME_LEN - 1 THEN full
        ELSE SubSeq(full, 1, MAX_NAME_LEN - 1)

network_create(st, network_name, fib_id, physical_interface, F) ==
    LET r1 == zfs_create_network_structure(st, network_name, F)
        network == [name |-> network_name, type |-> "NETWORK_TYPE_BRIDGE",
                    fib_id |-> fib_id,
                    physical_interface |->
                        IF physical_interface # NULL THEN physical_interface ELSE "",
                    bridge_name |-> BridgeName(network_name)]
        r2 == xml_save_network_config(r1.st, network, F)
        r3 == netd_configure_bridge(r2.st, network.bridge_name, fib_id, F)
    IN  IF r1.rc # 0 THEN
            [st |-> r1.st, rc |-> -1, calls |-> <<"zfs_create_network_structure">>]
        ELSE IF r2.rc # 0 THEN
            [st |-> zfs_destroy_dataset(r2.st, NetworkPath(network_name), F,
                                        "zfs_destroy:network").st,
             rc |-> -1,
             calls |-> <<"zfs_create_network_structure", "xml_save_network_config",
                         "zfs_destroy_dataset">>]
        ELSE IF r3.rc # 0 THEN
            [st |-> zfs_destroy_dataset(r3.st, NetworkPath(network_name), F,
                                        "zfs_destroy:network").st,
             rc |-> -1,
             calls |-> <<"zfs_create_network_structure", "xml_save_network_config",
                         "netd_configure_bridge", "zfs_destroy_dataset">>]
        ELSE
            [st |-> r3.st, rc |-> 0,
             calls |-> <<"zfs_create_network_structure", "xml_save_network_config",
                         "netd_configure_bridge">>]

\* A network_destroy that deletes the storage whatever the network daemon
\* answered.
network_destroy_eager(st, network_name, F) ==
    LET l == xml_load_network_config(st, network_name, F)
    IN  IF l.rc # 0 THEN
            [st |-> st, rc |-> -1, load_ok |-> FALSE, bridge_ok |-> FALSE,
             calls |-> <<"xml_load_network_config">>]
        ELSE
            LET r == netd_remove_bridge(st, l.network.bridge_name, F)
                d == zfs_destroy_dataset(r.st, NetworkPath(network_name), F,
                                         "zfs_destroy:network")
            IN  [st |-> d.st, rc |-> IF d.rc # 0 \/ r.rc # 0 THEN -1 ELSE 0,
                 load_ok |-> TRUE, bridge_ok |-> r.rc = 0,
                 calls |-> <<"xml_load_network_config", "netd_remove_bridge",
                             "zfs_destroy_dataset">>]

network_destroy(st, network_name, F) ==
    LET l == xml_load_network_config(st, network_name, F)
    IN  IF l.rc # 0 THEN
            [st |-> st, rc |-> -1, load_ok |-> FALSE, bridge_ok |-> FALSE,
             calls |-> <<"xml_load_network_config">>]
        ELSE
            LET r == netd_remove_bridge(st, l.network.bridge_name, F)
            IN  IF r.rc # 0 THEN
                    [st |-> r.st, rc |-> -1, load_ok |-> TRUE, bridge_ok |-> r.rc = 0,
                     calls |-> <<"xml_load_network_config", "netd_remove_bridge">>]
                ELSE
                    LET d == zfs_destroy_dataset(r.st, NetworkPath(network_name), F,
                                                 "zfs_destroy:network")
                    IN  [st |-> d.st, rc |-> IF d.rc # 0 THEN -1 ELSE 0,
                         load_ok |-> TRUE, bridge_ok |-> r.rc = 0,
                         calls |-> <<"xml_load_network_config", "netd_remove_bridge",
                                     "zfs_destroy_dataset">>]

network_show(st, network_name, F) ==
    LET l == xml_load_network_config(st, network_name, F)
    IN  IF l.rc # 0 THEN [rc |-> -1, out |-> <<>>]
        ELSE [rc |-> 0,
              out |-> [Network |-> l.network.name,
                       Type |-> "bridge",
                       FibId |-> FmtDec(l.network.fib_id),
                       Bridge |-> l.network.bridge_name,
                       PhysicalInterface |->
                           IF l.network.physical_interface # ""
                           THEN l.network.physical_interface ELSE "none"]]

\* vm_name is used in the log lines only.
network_create_tap(st, vm_name, network_name, tap_name, F) ==
    LET l == xml_load_network_config(st, network_name, F)
    IN  IF l.rc # 0 THEN
            [st |-> st, rc |-> -1, config |-> EmptyConfig,
             calls |-> <<"xml_load_network_config">>]
        ELSE
            LET r == netd_configure_tap(st, tap_name, l.network.bridge_name,
                                        l.network.fib_id, F)
            IN  [st |-> r.st, rc |-> IF r.rc # 0 THEN -1 ELSE 0,
                 config |-> r.config,
                 calls |-> <<"xml_load_network_config", "netd_configure_tap">>]

network_remove_tap(st, tap_name, F) ==
    LET r == netd_remove_tap(st, tap_name, F)
    IN  IF r.rc # 0 THEN [st |-> r.st, rc |-> -1] ELSE [st |-> r.st, rc |-> 0]

----------------------------------------------------------------------------
(* network_manager.c, the property setters                                 *)

\* A network_set_fib that also re-sends the bridge to the network daemon
\* with the new FIB.
network_set_fib_reconciling(st, network_name, fib_id, F) ==
    LET l == xml_load_network_config(st, network_name, F)
    IN  IF l.rc # 0 THEN [st |-> st, rc |-> -1]
        ELSE LET r == xml_save_network_config(
                          st, [l.network EXCEPT !.fib_id = fib_id], F)
             IN IF r.rc # 0 THEN [st |-> r.st, rc |-> -1]
                ELSE [st |-> netd_configure_bridge(
                                 r.st, l.network.bridge_name, fib_id, F).st,
                      rc |-> 0]

network_set_fib(st, network_name, fib_id, F) ==
    LET l == xml_load_network_config(st, network_name, F)
    IN  IF l.rc # 0 THEN [st |-> st, rc |-> -1]
        ELSE LET r == xml_save_network_config(
                          st, [l.network EXCEPT !.fib_id = fib_id], F)
             IN IF r.rc # 0 THEN [st |-> r.st, rc |-> -1]
                ELSE [st |-> r.st, rc |-> 0]

network_set_physical_interface(st, network_name, physical_interface, F) ==
    LET l == xml_load_network_config(st, network_name, F)
    IN  IF l.rc # 0 THEN [st |-> st, rc |-> -1]
        ELSE LET r == xml_save_network_config(
                          st, [l.network EXCEPT
                                 !.physical_interface = physical_interface], F)
             IN IF r.rc # 0 THEN [st |-> r.st, rc |-> -1]
                ELSE [st |-> r.st, rc |-> 0]

\* opendir/readdir over the directories of /hv/vm; a directory whose record
\* does not load is skipped.
vm_list(st, F) ==
    IF "opendir" \in F THEN [rc |-> -1, out |-> {}]
    ELSE [rc |-> 0,
          out |-> {vm_show(st, n, F).out :
                     n \in {m \in DOMAIN st.vmcfg :
                              VmPath(m) \in st.ds
                              /\ xml_load_vm_config(st, m, F).rc = 0}}]

network_list(st, F) ==
    IF "opendir" \in F THEN [rc |-> -1, out |-> {}]
    ELSE [rc |-> 0,
          out |-> {network_show(st, n, F).out :
                     n \in {m \in DOMAIN st.netcfg :
                              NetworkPath(m) \in st.ds
                              /\ xml_load_network_config(st, m, F).rc = 0}}]

----------------------------------------------------------------------------
(* commands.c                                                              *)

\* The command buffer and the state of strtok().  The line is held as its
\* tokens; nul is the set of tokens whose following delimiter strtok() has
\* overwritten with a NUL byte; save is the token the next strtok(NULL, ...)
\* starts from, 0 when the saved position is the end of a string.
NewBuffer(line) == [toks |-> line, nul |-> {}, save |-> 0]

\* A strtok() that lets a handler walk the whole line again from its first
\* token.
strtok_fresh(tk, restart) ==
    LET from == IF restart THEN 1 ELSE tk.save
    IN  IF from = 0 \/ from > Len(tk.toks) THEN
            [tok |-> NULL, tk |-> [tk EXCEPT !.save = 0]]
        ELSE IF from = Len(tk.toks) THEN
            [tok |-> tk.toks[from], tk |-> [tk EXCEPT !.save = 0]]
        ELSE
            [tok |-> tk.toks[from],
             tk |-> [tk EXCEPT !.nul = @ \cup {from}, !.save = from + 1]]

\* strtok(s, " \t\n"): restart is TRUE for a call with s = the buffer,
\* FALSE for a call with s = NULL.  A token that ends where the string ends
\* (the last token, or one already followed by a NUL) leaves the saved
\* position at the end of the string.
strtok(tk, restart) ==
    LET from == IF restart THEN 1 ELSE tk.save
    IN  IF from = 0 \/ from > Len(tk.toks) THEN
            [tok |-> NULL, tk |-> [tk EXCEPT !.save = 0]]
        ELSE IF from \in tk.nul \/ from = Len(tk.toks) THEN
            [tok |-> tk.toks[from], tk |-> [tk EXCEPT !.save = 0]]
        ELSE
            [tok |-> tk.toks[from],
             tk |-> [tk EXCEPT !.nul = @ \cup {from}, !.save = from + 1]]

Fail(st, response) == [st |-> st, rc |-> -1, response |-> response]
Ok(st, response) == [st |-> st, rc |-> 0, response |-> response]

handle_create_command(st, cmd, F) ==
    LET t1 == strtok(cmd, TRUE)
        t2 == strtok(t1.tk, FALSE)
        object == t2.tok
        t3 == strtok(t2.tk, FALSE)
        t4 == strtok(t3.tk, FALSE)
        t5 == strtok(t4.tk, FALSE)
    IN  IF t1.tok = NULL THEN Fail(st, <<"ERROR: Missing object type">>)
        ELSE IF object = NULL THEN
            Fail(st, <<"ERROR: Missing object type (vm|network)">>)
        ELSE IF object = "vm" THEN
            IF t3.tok = NULL THEN Fail(st, <<"ERROR: Missing VM name">>)
            ELSE IF t4.tok = NULL THEN Fail(st, <<"ERROR: Missing CPU count">>)
            ELSE IF t5.tok = NULL THEN Fail(st, <<"ERROR: Missing memory size">>)
            ELSE LET r == vm_create(st, t3.tok, atoi(Spell(t4.tok)),
                                    strtoull(Spell(t5.tok)), F)
                 IN IF r.rc # 0 THEN Fail(r.st, <<"ERROR: Failed to create VM">>)
                    ELSE Ok(r.st, <<"OK: Created VM %s", t3.tok>>)
        ELSE IF object = "network" THEN
            IF t3.tok = NULL THEN Fail(st, <<"ERROR: Missing network name">>)
            ELSE IF t4.tok = NULL THEN Fail(st, <<"ERROR: Missing FIB ID">>)
            ELSE LET r == network_create(st, t3.tok,
                                         AsUnsigned(atoi(Spell(t4.tok))), t5.tok, F)
                 IN IF r.rc # 0 THEN Fail(r.st, <<"ERROR: Failed to create network">>)
                    ELSE Ok(r.st, <<"OK: Created network %s", t3.tok>>)
        ELSE Fail(st, <<"ERROR: Unknown object type '%s'", object>>)

handle_show_command(st, cmd, F) ==
    LET t1 == strtok(cmd, TRUE)
        t2 == strtok(t1.tk, FALSE)
        object == t2.tok
        t3 == strtok(t2.tk, FALSE)
    IN  IF t1.tok = NULL THEN Fail(st, <<"ERROR: Missing object type">>)
        ELSE IF object = NULL THEN
            Fail(st, <<"ERROR: Missing object type (vm|network)">>)
        ELSE IF object = "vm" THEN
            IF t3.tok = NULL THEN Fail(st, <<"ERROR: Missing VM name">>)
            ELSE IF "tmpfile" \in F THEN
                Fail(st, <<"ERROR: Failed to create temporary file">>)
            ELSE LET r == vm_show(st, t3.tok, F)
                 IN IF r.rc # 0 THEN Fail(st, <<"ERROR: Failed to show VM details">>)
                    ELSE Ok(st, <<"vm_show", r.out>>)
        ELSE IF object = "network" THEN
            IF t3.tok = NULL THEN Fail(st, <<"ERROR: Missing network name">>)
            ELSE IF "tmpfile" \in F THEN
                Fail(st, <<"ERROR: Failed to create temporary file">>)
            ELSE LET r == network_show(st, t3.tok, F)
                 IN IF r.rc # 0 THEN
                        Fail(st, <<"ERROR: Failed to show network details">>)
                    ELSE Ok(st, <<"network_show", r.out>>)
        ELSE Fail(st, <<"ERROR: Unknown object type '%s'", object>>)

handle_destroy_command(st, cmd, F) ==
    LET t1 == strtok(cmd, TRUE)
        t2 == strtok(t1.tk, FALSE)
        object == t2.tok
        t3 == strtok(t2.tk, FALSE)
        name == t3.tok
    IN  IF t1.tok = NULL THEN Fail(st, <<"ERROR: Missing object type">>)
        ELSE IF object = NULL THEN
            Fail(st, <<"ERROR: Missing object type (vm|network)">>)
        ELSE IF name = NULL THEN Fail(st, <<"ERROR: Missing name">>)
        ELSE IF object = "vm" THEN
            LET r == vm_destroy(st, name, F)
            IN IF r.rc # 0 THEN Fail(r.st, <<"ERROR: Failed to destroy VM">>)
               ELSE Ok(r.st, <<"OK: Destroyed VM %s", name>>)
        ELSE IF object = "network" THEN
            LET r == network_destroy(st, name, F)
            IN IF r.rc # 0 THEN Fail(r.st, <<"ERROR: Failed to destroy network">>)
               ELSE Ok(r.st, <<"OK: Destroyed network %s", name>>)
        ELSE Fail(st, <<"ERROR: Unknown object type '%s'", object>>)

handle_start_command(st, cmd, F) ==
    LET t1 == strtok(cmd, TRUE)
        t2 == strtok(t1.tk, FALSE)
        vm_name == t2.tok
    IN  IF t1.tok = NULL THEN Fail(st, <<"ERROR: Missing VM name">>)
        ELSE IF vm_name = NULL THEN Fail(st, <<"ERROR: Missing VM name">>)
        ELSE LET r == vm_start(st, vm_name, F)
             IN IF r.rc # 0 THEN Fail(r.st, <<"ERROR: Failed to start VM">>)
                ELSE Ok(r.st, <<"OK: Started VM %s", vm_name>>)

handle_stop_command(st, cmd, F) ==
    LET t1 == strtok(cmd, TRUE)
        t2 == strtok(t1.tk, FALSE)
        vm_name == t2.tok
    IN  IF t1.tok = NULL THEN Fail(st, <<"ERROR: Missing VM name">>)
        ELSE IF vm_name = NULL THEN Fail(st, <<"ERROR: Missing VM name">>)
        ELSE LET r == vm_stop(st, vm_name, F)
             IN IF r.rc # 0 THEN Fail(r.st, <<"ERROR: Failed to stop VM">>)
                ELSE Ok(r.st, <<"OK: Stopped VM %s", vm_name>>)

handle_set_vm_command(st, cmd, F) ==
    LET t1 == strtok(cmd, TRUE)
        t2 == strtok(t1.tk, FALSE)      \* "vm"
        t3 == strtok(t2.tk, FALSE)      \* actual VM name
        vm_name == t3.tok
        t4 == strtok(t3.tk, FALSE)
        property == t4.tok
        t5 == strtok(t4.tk, FALSE)
        value == t5.tok
    IN  IF t1.tok = NULL THEN Fail(st, <<"ERROR: Missing VM name">>)
        ELSE IF vm_name = NULL THEN Fail(st, <<"ERROR: Missing VM name">>)
        ELSE IF property = NULL THEN Fail(st, <<"ERROR: Missing property">>)
        ELSE IF value = NULL THEN Fail(st, <<"ERROR: Missing value">>)
        ELSE
            LET l == xml_load_vm_config(st, vm_name, F)
                cpu == atoi(Spell(value))
                memory == strtoull(Spell(value))
                save(vm) ==
                    LET r == xml_save_vm_config(st, vm, F)
                    IN IF r.rc # 0 THEN
                           Fail(r.st, <<"ERROR: Failed to save VM configuration">>)
                       ELSE Ok(r.st, <<"OK: Set %s=%s for VM %s",
                                       property, value, vm_name>>)
            IN  IF l.rc # 0 THEN Fail(st, <<"ERROR: VM '%s' not found", vm_name>>)
                ELSE IF property = "cpu" THEN
                    IF cpu <= 0 \/ cpu > 32
                    THEN Fail(st, <<"ERROR: Invalid CPU count (1-32)">>)
                    ELSE save([l.vm EXCEPT !.cpu_cores = cpu])
                ELSE IF property = "memory" THEN
                    IF memory < 64 \/ memory > 1048576
                    THEN Fail(st, <<"ERROR: Invalid memory size (64-1048576 MB)">>)
                    ELSE save([l.vm EXCEPT !.memory_mb = memory])
                ELSE IF property = "boot-device" THEN
                    save([l.vm EXCEPT !.boot_device = value])
                ELSE Fail(st, <<"ERROR: Unknown property '%s'", property>>)

handle_set_network_command(st, cmd, F) ==
    LET t1 == strtok(cmd, TRUE)
        t2 == strtok(t1.tk, FALSE)      \* "network"
        t3 == strtok(t2.tk, FALSE)      \* actual network name
        network_name == t3.tok
        t4 == strtok(t3.tk, FALSE)
        property == t4.tok
        t5 == strtok(t4.tk, FALSE)
        value == t5.tok
        done(st2) == Ok(st2, <<"OK: Set %s=%s for network %s",
                               property, value, network_name>>)
    IN  IF t1.tok = NULL THEN Fail(st, <<"ERROR: Missing network name">>)
        ELSE IF network_name = NULL THEN Fail(st, <<"ERROR: Missing network name">>)
        ELSE IF property = NULL THEN Fail(st, <<"ERROR: Missing property">>)
        ELSE IF value = NULL THEN Fail(st, <<"ERROR: Missing value">>)
        ELSE IF property = "fib" THEN
            LET fib_id == AsUnsigned(atoi(Spell(value)))
                r == network_set_fib(st, network_name, fib_id, F)
            IN  IF fib_id > 255 THEN Fail(st, <<"ERROR: Invalid FIB ID (0-255)">>)
                ELSE IF r.rc # 0 THEN Fail(r.st, <<"ERROR: Failed to set FIB ID">>)
                ELSE done(r.st)
        ELSE IF property = "physical-interface" THEN
            LET r == network_set_physical_interface(st, network_name, value, F)
            IN  IF r.rc # 0
                THEN Fail(r.st, <<"ERROR: Failed to set physical interface">>)
                ELSE done(r.st)
        ELSE Fail(st, <<"ERROR: Unknown property '%s'", property>>)

\* Entered with the saved position left by execute_command's strtok().
handle_set_command(st, cmd, F) ==
    LET t == strtok(cmd, FALSE)
    IN  IF t.tok = NULL THEN Fail(st, <<"ERROR: Missing object type (vm|network)">>)
        ELSE IF t.tok = "vm" THEN handle_set_vm_command(st, t.tk, F)
        ELSE IF t.tok = "network" THEN handle_set_network_command(st, t.tk, F)
        ELSE Fail(st, <<"ERROR: Unknown object type '%s'", t.tok>>)

handle_list_command(st, cmd, F) ==
    LET t1 == strtok(cmd, TRUE)
        t2 == strtok(t1.tk, FALSE)
        object == t2.tok
        r == IF object = "vm" THEN vm_list(st, F) ELSE network_list(st, F)
    IN  IF t1.tok = NULL THEN Fail(st, <<"ERROR: Missing object type">>)
        ELSE IF object = NULL THEN
            Fail(st, <<"ERROR: Missing object type (vm|network)">>)
        ELSE IF "tmpfile" \in F THEN
            Fail(st, <<"ERROR: Failed to create temporary file">>)
        ELSE IF object \notin {"vm", "network"} THEN
            Fail(st, <<"ERROR: Unknown object type '%s'", object>>)
        ELSE IF r.rc # 0 THEN Fail(st, <<"ERROR: Failed to list %s", object>>)
        ELSE Ok(st, <<"list", object, r.out>>)

handle_help_command(st) == Ok(st, <<"HVD Commands:">>)

\* An execute_command that answers an unknown verb with the help text.
execute_command_lenient(st, line, F) ==
    LET cmd_copy == NewBuffer(line)
        t == strtok(cmd_copy, TRUE)
        token == t.tok
    IN  IF "strdup" \in F THEN Fail(st, <<"ERROR: Memory allocation failed">>)
        ELSE IF token = NULL THEN Fail(st, <<"ERROR: Empty command">>)
        ELSE IF token = "set" THEN handle_set_command(st, t.tk, F)
        ELSE IF token = "show" THEN handle_show_command(st, t.tk, F)
        ELSE IF token = "create" THEN handle_create_command(st, t.tk, F)
        ELSE IF token = "destroy" THEN handle_destroy_command(st, t.tk, F)
        ELSE IF token = "start" THEN handle_start_command(st, t.tk, F)
        ELSE IF token = "stop" THEN handle_stop_command(st, t.tk, F)
        ELSE IF token = "list" THEN handle_list_command(st, t.tk, F)
        ELSE handle_help_command(st)

execute_command(st, line, F) ==
    LET cmd_copy == NewBuffer(line)
        t == strtok(cmd_copy, TRUE)
        token == t.tok
    IN  IF "strdup" \in F THEN Fail(st, <<"ERROR: Memory allocation failed">>)
        ELSE IF token = NULL THEN Fail(st, <<"ERROR: Empty command">>)
        ELSE IF token = "set" THEN handle_set_command(st, t.tk, F)
        ELSE IF token = "show" THEN handle_show_command(st, t.tk, F)
        ELSE IF token = "create" THEN handle_create_command(st, t.tk, F)
        ELSE IF token = "destroy" THEN handle_destroy_command(st, t.tk, F)
        ELSE IF token = "start" THEN handle_start_command(st, t.tk, F)
        ELSE IF token = "stop" THEN handle_stop_command(st, t.tk, F)
        ELSE IF token = "list" THEN handle_list_command(st, t.tk, F)
        ELSE IF token = "help" THEN handle_help_command(st)
        ELSE Fail(st, <<"ERROR: Unknown command '%s'", token>>)

----------------------------------------------------------------------------
(* hvd.c                                                                   *)

NoClient == "none"

\* A client that is not connected.
NoConnection == [state |-> "idle", peer_open |-> FALSE, wire |-> <<>>]

\* strlen() of a command line: its tokens with one blank between them.
RECURSIVE ByteLen(_)
ByteLen(line) ==
    IF line = <<>> THEN 0
    ELSE IF Len(line) = 1 THEN Len(line[1])
    ELSE Len(line[1]) + 1 + ByteLen(Tail(line))

\* A request as hv_client frames it: the length, then the command.  whole
\* tells that the eight bytes of the length reach the daemon in one piece.
Frame(line) == [len |-> ByteLen(line), line |-> line, whole |-> TRUE]

\* The value of len after recv(client_sock, &len, sizeof(len), 0), whose
\* result is only tested for n <= 0.  When the first byte of the length
\* arrives alone the other seven bytes of len are not initialized.
PrefixValues(req) ==
    IF req.whole THEN {req.len}
    ELSE {(req.len % 256) + 256 * k : k \in {0, 1, 16}}

\* The string in cmd after the payload loop and cmd[len] = '\0'.  After a
\* short read of the length the payload loop reads the rest of the length
\* first; the string ends at its first zero byte.
ReceivedLine(req, len) ==
    IF req.whole THEN req.line
    ELSE IF len = 0 \/ req.len < 256 THEN <<>>
    ELSE <<"\\020">>

\* close(client_sock); the client's end stays until the client closes too.
CloseConnection(c) ==
    [socks EXCEPT ![c] = IF socks[c].peer_open
                         THEN [state |-> "closed", peer_open |-> TRUE,
                               wire |-> <<>>]
                         ELSE NoConnection]

\* What handle_client() frames back for the result of execute_command().
FramedResponse(r) ==
    IF r.rc # 0 THEN <<"ERROR: Command execution failed">> ELSE r.response

----------------------------------------------------------------------------
(* The daemon after init_server(): the base datasets exist, nothing has    *)
(* been created, no child runs.                                            *)

\* char response[MAX_RESPONSE_LEN] of the callers of netd_send_yang_config().
MAX_RESPONSE_LEN == 8192

\* strlen(xml_config) of the documents sent, and the response lengths the
\* network daemon announces.
DocLens == {300}
ResponseLens == {0, 5, 8191, 8192, 9000}

\* No call of netd_send_yang_config() is in progress.  len is the size_t of
\* the function, received its byte count; prefix_stored counts the bytes of
\* the length prefix that the receive loop stored as response bytes.  The
\* peer has announced `declared`, has sent sent_prefix bytes of the prefix
\* and sent_body bytes of the response; wire_prefix and wire_body are the
\* bytes sent and not yet received.
NoExchange ==
    [pc |-> "idle", len |-> 0, received |-> 0, prefix_stored |-> 0, rc |-> 0,
     spinning |-> FALSE, declared |-> 0, sent_prefix |-> 0, sent_body |-> 0,
     wire_prefix |-> 0, wire_body |-> 0, closed |-> FALSE]

\* size_t len after recv(sock, &len, sizeof(len), 0) returned n: the first n
\* bytes (the low ones, amd64 is little-endian) are those of the prefix, the
\* others keep what len held.  All lengths here are below 2^24.
ReceivedLength(len, declared, n) ==
    IF n >= 3 THEN declared
    ELSE IF n = 2 THEN (len - (len % 65536)) + (declared % 65536)
    ELSE IF n = 1 THEN (len - (len % 256)) + (declared % 256)
    ELSE len

Min(a, b) == IF a <= b THEN a ELSE b

----------------------------------------------------------------------------

Names == VmNames \cup NetNames \cup LongNetNames

Init ==
    /\ datasets = {<<"vm">>, <<"networks">>}
    /\ vmcfg = [n \in Names |-> NoFile]
    /\ netcfg = [n \in Names |-> NoFile]
    /\ pidfile = [n \in Names |-> NoPid]
    /\ procs = [p \in {} |-> NULL]
    /\ nextPid = 1
    /\ netd = [i \in {} |-> NULL]
    /\ running = TRUE
    /\ hvd = [pc |-> "accept", client |-> NoClient, cmd |-> <<>>]
    /\ socks = [c \in Clients |-> NoConnection]
    /\ document = EmptyConfig
    /\ exchange = NoExchange
    /\ last = [op |-> "init"]

Apply(st) ==
    /\ datasets' = st.ds
    /\ vmcfg' = st.vmcfg
    /\ netcfg' = st.netcfg
    /\ pidfile' = st.pidfile
    /\ procs' = st.procs
    /\ nextPid' = st.nextPid
    /\ netd' = st.netd

FaultSets(points) == {F \in SUBSET points : Cardinality(F) <= MaxFaults}

VmCreateFaults ==
    {"libzfs_init", "zfs_create:vm", "zfs_create:disks", "zfs_create:state",
     "xml_save", "zfs_destroy:vm", "zfs_destroy:disks"}
VmStartFaults == {"xml_load", "open_vmm", "fork", "xml_save", "pid_write"}
VmStopFaults ==
    {"xml_load", "pid_read", "open_vmm", "vm_suspend", "xml_save", "unlink"}
VmDestroyFaults == VmStopFaults \cup {"libzfs_init", "zfs_destroy:vm"}
NetworkCreateFaults ==
    {"libzfs_init", "zfs_create:network", "xml_save", "netd_connect",
     "netd_recv", "netd_refuse", "zfs_destroy:network"}
NetworkDestroyFaults ==
    {"xml_load", "netd_connect", "netd_recv", "netd_refuse", "libzfs_init",
     "zfs_destroy:network"}
NetworkSetFaults == {"xml_load", "xml_save"}
NetworkTapFaults == {"xml_load", "netd_connect", "netd_recv", "netd_refuse"}
CommandFaults == {"strdup", "xml_load"}

\* How long the child takes to exit once asked to stop.
ExitDelays == {{}, {"alive_poll1"}, {"alive_poll1", "alive_poll2"}}

VmCreate ==
    \E n \in VmNames, c \in CpuValues, m \in MemValues,
       F \in FaultSets(VmCreateFaults) :
        \E r \in {vm_create(Cur, n, c, m, F)} :
            /\ Apply(r.st)
            /\ UNCHANGED <<running, hvd, socks, document, exchange>>
            /\ last' = [op |-> "vm_create", name |-> n, rc |-> r.rc]

VmStart ==
    \E n \in VmNames, F \in FaultSets(VmStartFaults) :
        \E r \in {vm_start(Cur, n, F)} :
            /\ r.st.nextPid <= MaxPids + 1
            /\ Apply(r.st)
            /\ UNCHANGED <<running, hvd, socks, document, exchange>>
            /\ last' = [op |-> "vm_start", name |-> n, rc |-> r.rc,
                        calls |-> r.calls]

VmStop ==
    \E n \in VmNames, F \in FaultSets(VmStopFaults), E \in ExitDelays :
        \E r \in {vm_stop(Cur, n, F \cup E)} :
            /\ Apply(r.st)
            /\ UNCHANGED <<running, hvd, socks, document, exchange>>
            /\ last' = [op |-> "vm_stop", name |-> n, rc |-> r.rc,
                        calls |-> r.calls,
                        was_running |-> xml_load_vm_config(Cur, n, {}).rc = 0
                            /\ xml_load_vm_config(Cur, n, {}).vm.state
                                   = VM_STATE_RUNNING]

VmDestroy ==
    \E n \in VmNames, F \in FaultSets(VmDestroyFaults), E \in ExitDelays :
        \E r \in {vm_destroy(Cur, n, F \cup E)} :
            /\ Apply(r.st)
            /\ UNCHANGED <<running, hvd, socks, document, exchange>>
            /\ last' = [op |-> "vm_destroy", name |-> n, rc |-> r.rc,
                        calls |-> r.calls, stop_rc |-> r.stop_rc,
                        existed |-> VmPath(n) \in datasets]

VmShow ==
    \E n \in VmNames, F \in FaultSets({"xml_load"}) :
        \E r \in {vm_show(Cur, n, F)} :
            /\ UNCHANGED <<datasets, vmcfg, netcfg, pidfile, procs, nextPid, netd,
                           running, hvd, socks, document, exchange>>
            /\ last' = [op |-> "vm_show", name |-> n, rc |-> r.rc,
                        out |-> r.out]

\* A supervised child exits by itself: VM_RUN returned or failed.
ChildExit ==
    \E p \in DOMAIN procs :
        /\ procs[p].status = "running"
        /\ procs' = [procs EXCEPT ![p].status = "zombie"]
        /\ last' = [op |-> "child_exit", pid |-> p]
        /\ UNCHANGED <<datasets, vmcfg, netcfg, pidfile, nextPid, netd,
                       running, hvd, socks, document, exchange>>

NetworkCreateOn(names) ==
    \E n \in names, f \in FibValues, i \in IfValues \cup {NULL},
       F \in FaultSets(NetworkCreateFaults) :
        \E r \in {network_create(Cur, n, f, i, F)} :
            /\ Apply(r.st)
            /\ UNCHANGED <<running, hvd, socks, document, exchange>>
            /\ last' = [op |-> "network_create", name |-> n, rc |-> r.rc,
                        calls |-> r.calls]

NetworkCreate == NetworkCreateOn(NetNames)

NetworkDestroyOn(names) ==
    \E n \in names, F \in FaultSets(NetworkDestroyFaults) :
        \E r \in {network_destroy(Cur, n, F)} :
            /\ Apply(r.st)
            /\ UNCHANGED <<running, hvd, socks, document, exchange>>
            /\ last' = [op |-> "network_destroy", name |-> n, rc |-> r.rc,
                        calls |-> r.calls, load_ok |-> r.load_ok,
                        bridge_ok |-> r.bridge_ok]

NetworkDestroy == NetworkDestroyOn(NetNames)

NetworkSetFibOn(names) ==
    \E n \in names, f \in FibValues, F \in FaultSets(NetworkSetFaults) :
        \E r \in {network_set_fib(Cur, n, f, F)} :
            /\ Apply(r.st)
            /\ UNCHANGED <<running, hvd, socks, document, exchange>>
            /\ last' = [op |-> "network_set_fib", name |-> n, rc |-> r.rc,
                        value |-> FmtDec(f)]

NetworkSetFib == NetworkSetFibOn(NetNames)

NetworkSetPhysicalInterfaceOn(names) ==
    \E n \in names, i \in IfValues, F \in FaultSets(NetworkSetFaults) :
        \E r \in {network_set_physical_interface(Cur, n, i, F)} :
            /\ Apply(r.st)
            /\ UNCHANGED <<running, hvd, socks, document, exchange>>
            /\ last' = [op |-> "network_set_physical_interface", name |-> n,
                        rc |-> r.rc, value |-> i]

NetworkSetPhysicalInterface == NetworkSetPhysicalInterfaceOn(NetNames)

NetworkCreateTap ==
    \E v \in VmNames, n \in NetNames, t \in TapNames,
       F \in FaultSets(NetworkTapFaults) :
        \E r \in {network_create_tap(Cur, v, n, t, F)} :
            /\ Apply(r.st)
            /\ UNCHANGED <<running, hvd, socks, document, exchange>>
            /\ last' = [op |-> "network_create_tap", name |-> n, tap |-> t,
                        rc |-> r.rc, calls |-> r.calls, config |-> r.config]

NetworkRemoveTap ==
    \E t \in TapNames, F \in FaultSets(NetworkTapFaults \ {"xml_load"}) :
        \E r \in {network_remove_tap(Cur, t, F)} :
            /\ Apply(r.st)
            /\ UNCHANGED <<running, hvd, socks, document, exchange>>
            /\ last' = [op |-> "network_remove_tap", tap |-> t, rc |-> r.rc]

NetworkShow ==
    \E n \in NetNames, F \in FaultSets({"xml_load"}) :
        \E r \in {network_show(Cur, n, F)} :
            /\ UNCHANGED <<datasets, vmcfg, netcfg, pidfile, procs, nextPid, netd,
                           running, hvd, socks, document, exchange>>
            /\ last' = [op |-> "network_show", name |-> n, rc |-> r.rc,
                        out |-> r.out]

\* The command lines a client sends.
CommandLines ==
    {<<>>, <<"help">>, <<"frobnicate">>}
    \cup {<<"create", "vm", n, "2", "1024">> : n \in VmNames}
    \cup {<<"create", "network", n, "10", "em0">> : n \in NetNames}
    \cup {<<"create", "network", n, "10">> : n \in NetNames}
    \cup {<<"show", "vm", n>> : n \in VmNames}
    \cup {<<"show", "network", n>> : n \in NetNames}
    \cup {<<"start", n>> : n \in VmNames}
    \cup {<<"stop", n>> : n \in VmNames}
    \cup {<<"destroy", "vm", n>> : n \in VmNames}
    \cup {<<"destroy", "network", n>> : n \in NetNames}
    \cup {<<"set", "vm", n, "cpu", v>> : n \in VmNames, v \in {"4", "33"}}
    \cup {<<"set", "vm", n, "memory", v>> : n \in VmNames, v \in {"2048", "32"}}
    \cup {<<"set", "network", n, "fib", v>> : n \in NetNames, v \in {"10", "256"}}
    \cup {<<"list", "vm">>, <<"list", "network">>}

ExecuteCommand ==
    \E line \in CommandLines, F \in FaultSets(CommandFaults) :
        \E r \in {execute_command(Cur, line, F)} :
            /\ r.st.nextPid <= MaxPids + 1
            /\ Apply(r.st)
            /\ UNCHANGED <<running, hvd, socks, document, exchange>>
            /\ last' = [op |-> "execute_command", line |-> line, rc |-> r.rc,
                        faulty |-> F # {}, response |-> r.response]

\* The requests a client sends: commands framed as hv_client does, one of
\* them with its length in two pieces, and requests declaring MAX_CMD_LEN
\* bytes or more.
DaemonLines == {<<"help">>, <<"frobnicate">>, <<"create", "vm", "t", "2", "1024">>}

ClientRequests ==
    {Frame(l) : l \in DaemonLines}
    \cup {[Frame(<<"help">>) EXCEPT !.whole = FALSE]}
    \cup {[len |-> n, line |-> <<"help">>, whole |-> w] :
            n \in {MAX_CMD_LEN, MAX_CMD_LEN + 1}, w \in BOOLEAN}

StoreUnchanged ==
    UNCHANGED <<datasets, vmcfg, netcfg, pidfile, procs, nextPid, netd, document, exchange>>

\* A client connects to the listening socket.
ClientConnect ==
    \E c \in Clients :
        /\ socks[c].state = "idle"
        /\ hvd.pc \notin {"killed", "exit"}
        /\ socks' = [socks EXCEPT ![c] = [state |-> "backlog", peer_open |-> TRUE,
                                          wire |-> <<>>]]
        /\ UNCHANGED <<running, hvd, last>>
        /\ StoreUnchanged

\* A client writes a request.  late tells that the shutdown flag was set
\* already when the request was written.
ClientSend ==
    \E c \in Clients, req \in ClientRequests :
        /\ socks[c].state \in {"backlog", "accepted"}
        /\ socks[c].peer_open
        /\ socks[c].wire = <<>>
        /\ socks' = [socks EXCEPT ![c].wire =
                        <<[len |-> req.len, line |-> req.line,
                           whole |-> req.whole, late |-> ~running]>>]
        /\ UNCHANGED <<running, hvd, last>>
        /\ StoreUnchanged

\* A client closes its end, whatever the daemon is doing.
ClientClose ==
    \E c \in Clients :
        /\ socks[c].peer_open
        /\ socks' = [socks EXCEPT ![c] =
                        IF socks[c].state = "closed" THEN NoConnection
                        ELSE [socks[c] EXCEPT !.peer_open = FALSE]]
        /\ UNCHANGED <<running, hvd, last>>
        /\ StoreUnchanged

\* SIGINT or SIGTERM: signal_handler().
Signal ==
    /\ running
    /\ hvd.pc \notin {"killed", "exit"}
    /\ running' = FALSE
    /\ UNCHANGED <<hvd, socks, last>>
    /\ StoreUnchanged

\* handle_client() returns to server_loop(), which tests running.
Returned ==
    [pc |-> IF running THEN "accept" ELSE "exit", client |-> NoClient, cmd |-> <<>>]

\* An accept that does not wait for handle_client() to return.
AcceptWhileServing ==
    \E c \in Clients :
        /\ hvd.pc \in {"accept", "recv_len"}
        /\ socks[c].state = "backlog"
        /\ last' = [op |-> "accept", client |-> c, served |-> running]
        /\ IF running THEN
               /\ socks' = [socks EXCEPT ![c].state = "accepted"]
               /\ hvd' = [pc |-> "recv_len", client |-> c, cmd |-> <<>>]
           ELSE
               /\ socks' = CloseConnection(c)
               /\ hvd' = Returned
        /\ UNCHANGED running
        /\ StoreUnchanged

\* server_loop(): accept() and the call of handle_client().  A signal that
\* arrived while accept() was blocked is seen by handle_client()'s loop,
\* which closes the connection at once.
Accept ==
    \E c \in Clients :
        /\ hvd.pc = "accept"
        /\ socks[c].state = "backlog"
        /\ last' = [op |-> "accept", client |-> c, served |-> running]
        /\ IF running THEN
               /\ socks' = [socks EXCEPT ![c].state = "accepted"]
               /\ hvd' = [pc |-> "recv_len", client |-> c, cmd |-> <<>>]
           ELSE
               /\ socks' = CloseConnection(c)
               /\ hvd' = Returned
        /\ UNCHANGED running
        /\ StoreUnchanged

\* accept() is interrupted by the signal and server_loop() ends.
ServerExit ==
    /\ hvd.pc = "accept"
    /\ ~running
    /\ hvd' = [hvd EXCEPT !.pc = "exit"]
    /\ last' = [op |-> "exit"]
    /\ UNCHANGED <<running, socks>>
    /\ StoreUnchanged

\* handle_client() from recv() of the length to the end of the payload.
\* recv() returns 0 when the client has closed and nothing is left to read,
\* and may return -1 when a signal interrupts it.
RecvRequest ==
    /\ hvd.pc = "recv_len"
    /\ LET c == hvd.client
           closed(declared, len) ==
               /\ socks' = CloseConnection(c)
               /\ hvd' = Returned
               /\ last' = [op |-> "recv", client |-> c, declared |-> declared,
                           len |-> len, payload_read |-> FALSE, closed |-> TRUE]
           taken(req, len) ==
               /\ socks' = [socks EXCEPT ![c].wire = Tail(@)]
               /\ hvd' = [pc |-> "execute", client |-> c,
                          cmd |-> ReceivedLine(req, len)]
               /\ last' = [op |-> "recv", client |-> c, declared |-> req.len,
                           len |-> len, payload_read |-> len > 0,
                           closed |-> FALSE, late |-> req.late]
       IN  \/ /\ ~running
              /\ closed(0, 0)
           \/ /\ socks[c].wire = <<>>
              /\ ~socks[c].peer_open
              /\ closed(0, 0)
           \/ /\ socks[c].wire # <<>>
              /\ \E len \in PrefixValues(Head(socks[c].wire)) :
                     IF len >= MAX_CMD_LEN
                     THEN closed(Head(socks[c].wire).len, len)
                     ELSE taken(Head(socks[c].wire), len)
    /\ UNCHANGED running
    /\ StoreUnchanged

\* handle_client() from execute_command() to the test of running at the top
\* of its loop.  A send() to a client that has closed raises SIGPIPE, for
\* which main() installs no handler: the process is killed, or, where the
\* signal was ignored by the parent, send() fails and the loop is left.
ExecuteAndRespond ==
    /\ hvd.pc = "execute"
    /\ \E F \in FaultSets(CommandFaults) :
        \E r \in {execute_command(Cur, hvd.cmd, F)} :
            LET c == hvd.client
                answered(delivered) ==
                    last' = [op |-> "respond", client |-> c, line |-> hvd.cmd,
                             rc |-> r.rc, response |-> r.response,
                             sent |-> FramedResponse(r),
                             delivered |-> delivered]
            IN  /\ Apply(r.st)
                /\ UNCHANGED <<running, document, exchange>>
                /\ IF socks[c].peer_open THEN
                       /\ answered(TRUE)
                       /\ IF running THEN
                              /\ hvd' = [pc |-> "recv_len", client |-> c,
                                         cmd |-> <<>>]
                              /\ UNCHANGED socks
                          ELSE
                              /\ hvd' = Returned
                              /\ socks' = CloseConnection(c)
                   ELSE
                       /\ answered(FALSE)
                       /\ socks' = CloseConnection(c)
                       /\ \/ hvd' = [pc |-> "killed", client |-> NoClient,
                                     cmd |-> <<>>]
                          \/ hvd' = Returned

DaemonNext ==
    \/ ClientConnect \/ ClientSend \/ ClientClose \/ Signal
    \/ Accept \/ ServerExit \/ RecvRequest \/ ExecuteAndRespond

\* A caller builds a document.
YangAddInterface ==
    \E name \in IfValues :
        \E r \in {yang_add_interface(document, name, 1, 0)} :
            /\ document' = r.config
            /\ last' = [op |-> "yang_add_interface", rc |-> r.rc]
            /\ UNCHANGED <<datasets, vmcfg, netcfg, pidfile, procs, nextPid,
                           netd, running, hvd, socks, exchange>>

YangAddInterfaceAddress ==
    \E interface_index \in {-1, 0, Len(document.interfaces)} :
        \E r \in {yang_add_interface_address(document, interface_index,
                                             LongAddress, "ipv4")} :
            /\ document' = r.config
            /\ last' = [op |-> "yang_add_interface_address",
                        interface_index |-> interface_index, rc |-> r.rc]
            /\ UNCHANGED <<datasets, vmcfg, netcfg, pidfile, procs, nextPid,
                           netd, running, hvd, socks, exchange>>

\* The caller adds its interfaces first and its routes after them.
YangAddRoute ==
    \E r \in {yang_add_route(document, "10.0.0.0/8", "10.0.0.1", 0, NULL)} :
        /\ Len(document.interfaces) >= MAX_INTERFACES
        /\ document' = r.config
        /\ last' = [op |-> "yang_add_route", rc |-> r.rc]
        /\ UNCHANGED <<datasets, vmcfg, netcfg, pidfile, procs, nextPid,
                       netd, running, hvd, socks, exchange>>

\* The document is rendered into char xml_buffer[8192], as the netd_*
\* functions do before they send it.
YangGenerateConfigXml ==
    \E r \in {yang_generate_config_xml(document, 8192)} :
        /\ last' = [op |-> "yang_generate_config_xml", rc |-> r.rc,
                    offset |-> r.offset, wrapped |-> r.wrapped,
                    over |-> r.over]
        /\ UNCHANGED <<datasets, vmcfg, netcfg, pidfile, procs, nextPid,
                       netd, running, hvd, socks, document, exchange>>

NetdFaults == {"netd_connect", "netd_recv"}

NetdAddInterfaceAddress ==
    \E name \in IfValues, ip \in AddressInputs, family \in FamilyInputs,
       F \in FaultSets(NetdFaults) :
        \E r \in {netd_add_interface_address(Cur, name, ip, family, F)} :
            /\ Apply(r.st)
            /\ last' = [op |-> "netd_add_interface_address", rc |-> r.rc,
                        sent |-> r.sent, config |-> r.config]
            /\ UNCHANGED <<running, hvd, socks, document, exchange>>

ValidateIpv4Address ==
    \E address \in Ipv4Inputs :
        /\ last' = [op |-> "yang_validate_ipv4_address", address |-> address,
                    rc |-> yang_validate_ipv4_address(address)]
        /\ UNCHANGED <<datasets, vmcfg, netcfg, pidfile, procs, nextPid,
                       netd, running, hvd, socks, document, exchange>>

ValidateIpv6Address ==
    \E address \in Ipv6Inputs :
        /\ last' = [op |-> "yang_validate_ipv6_address", address |-> address,
                    rc |-> yang_validate_ipv6_address(address)]
        /\ UNCHANGED <<datasets, vmcfg, netcfg, pidfile, procs, nextPid,
                       netd, running, hvd, socks, document, exchange>>

ValidateIpPrefix ==
    \E prefix \in PrefixInputs :
        /\ last' = [op |-> "yang_validate_ip_prefix", prefix |-> prefix,
                    rc |-> yang_validate_ip_prefix(prefix)]
        /\ UNCHANGED <<datasets, vmcfg, netcfg, pidfile, procs, nextPid,
                       netd, running, hvd, socks, document, exchange>>

YangNext ==
    YangAddInterface \/ YangAddInterfaceAddress \/ YangAddRoute
    \/ YangGenerateConfigXml

ExchangeUnchanged ==
    UNCHANGED <<datasets, vmcfg, netcfg, pidfile, procs, nextPid, netd, running,
                hvd, socks, document, last>>

\* netd_send_yang_config() up to the second send(): a failing socket(),
\* connect() or send() returns -1, otherwise the document is out and the
\* function goes on to receive the length of the response.
NetdSendConfig ==
    /\ exchange.pc \in {"idle", "returned"}
    /\ \E len \in DocLens, declared \in ResponseLens, ok \in BOOLEAN :
        exchange' = IF ok
                    THEN [NoExchange EXCEPT !.pc = "recv_len", !.len = len,
                                            !.declared = declared]
                    ELSE [NoExchange EXCEPT !.pc = "returned", !.rc = -1]
    /\ ExchangeUnchanged

\* The network daemon writes its length prefix, whole or the first byte
\* alone, then the response, whole or half of what is left.
PeerSend ==
    /\ exchange.pc \in {"recv_len", "recv_body"}
    /\ ~exchange.closed
    /\ \/ /\ exchange.sent_prefix < 8
          /\ \E k \in {1, 8 - exchange.sent_prefix} :
                exchange' = [exchange EXCEPT !.sent_prefix = @ + k,
                                             !.wire_prefix = @ + k]
       \/ /\ exchange.sent_prefix = 8
          /\ exchange.sent_body < exchange.declared
          /\ \E k \in {exchange.declared - exchange.sent_body,
                       (exchange.declared - exchange.sent_body + 1) \div 2} :
                exchange' = [exchange EXCEPT !.sent_body = @ + k,
                                             !.wire_body = @ + k]
    /\ ExchangeUnchanged

\* The network daemon closes the connection (or dies).
PeerClose ==
    /\ exchange.pc \in {"recv_len", "recv_body"}
    /\ ~exchange.closed
    /\ exchange' = [exchange EXCEPT !.closed = TRUE]
    /\ ExchangeUnchanged

\* recv(sock, &len, sizeof(len), 0) and the test of len against resp_len.
\* recv returns what has arrived of the 8 bytes, or 0 when the peer has
\* closed; only a negative result is taken for a failure.
NetdRecvLength ==
    /\ exchange.pc = "recv_len"
    /\ exchange.wire_prefix > 0 \/ exchange.closed
    /\ LET n == exchange.wire_prefix
           len == ReceivedLength(exchange.len, exchange.declared, n)
       IN  exchange' =
               IF len >= MAX_RESPONSE_LEN
               THEN [exchange EXCEPT !.pc = "returned", !.rc = -1, !.len = len,
                                     !.wire_prefix = 0]
               ELSE [exchange EXCEPT !.pc = "recv_body", !.len = len,
                                     !.wire_prefix = 0]
    /\ ExchangeUnchanged

\* One turn of while (received < len): recv() of at most len - received
\* bytes; a result of 0, the peer having closed, adds nothing to received
\* and the loop goes round again.  After the loop response[len] = '\0' and
\* the function returns 0.
NetdRecvResponse ==
    /\ exchange.pc = "recv_body"
    /\ IF exchange.received >= exchange.len THEN
           exchange' = [exchange EXCEPT !.pc = "returned", !.rc = 0]
       ELSE
           /\ exchange.wire_prefix + exchange.wire_body > 0 \/ exchange.closed
           /\ LET n == Min(exchange.len - exchange.received,
                           exchange.wire_prefix + exchange.wire_body)
                  p == Min(n, exchange.wire_prefix)
              IN  exchange' =
                      IF n = 0 THEN [exchange EXCEPT !.spinning = TRUE]
                      ELSE [exchange EXCEPT !.received = @ + n,
                                            !.prefix_stored = @ + p,
                                            !.wire_prefix = @ - p,
                                            !.wire_body = @ - (n - p)]
    /\ ExchangeUnchanged

\* A recv() that fails (n < 0): both places return -1.
NetdRecvError ==
    /\ exchange.pc \in {"recv_len", "recv_body"}
    /\ exchange' = [exchange EXCEPT !.pc = "returned", !.rc = -1]
    /\ ExchangeUnchanged

ExchangeNext ==
    \/ NetdSendConfig \/ PeerSend \/ PeerClose
    \/ NetdRecvLength \/ NetdRecvResponse \/ NetdRecvError

AddressNext ==
    \/ ValidateIpv4Address \/ ValidateIpv6Address \/ ValidateIpPrefix
    \/ NetdAddInterfaceAddress

VmNext == VmCreate \/ VmStart \/ VmStop \/ VmDestroy \/ VmShow \/ ChildExit

NetNext ==
    \/ NetworkCreate \/ NetworkDestroy \/ NetworkShow
    \/ NetworkSetFib \/ NetworkSetPhysicalInterface
    \/ NetworkCreateTap \/ NetworkRemoveTap

Next ==
    \/ VmNext \/ NetNext \/ ExecuteCommand \/ DaemonNext \/ YangNext
    \/ AddressNext \/ ExchangeNext

Spec == Init /\ [][Next]_vars

\* The VM lifecycle manager called directly.
VmSpec == Init /\ [][VmNext]_vars

\* The network lifecycle manager called directly.
NetSpec == Init /\ [][NetNext]_vars

\* The VM lifecycle manager with calls that keep failing: a create, start,
\* stop or destroy that returns -1 happens again and again.
FailedVmOperation ==
    /\ VmNext
    /\ last'.op \in {"vm_create", "vm_start", "vm_stop", "vm_destroy"}
    /\ last'.rc = -1

VmFailSpec == Init /\ [][VmNext]_vars /\ WF_vars(FailedVmOperation)

\* A caller that builds documents and renders them.
YangSpec == Init /\ [][YangNext]_vars

\* Callers that validate addresses and put addresses into documents.
AddressSpec == Init /\ [][AddressNext]_vars

\* Round trips with the network daemon, step by step.
ExchangeSpec == Init /\ [][ExchangeNext]_vars

\* The same with the function scheduled: a recv() that can return does
\* return.  Nothing obliges the peer to send or a recv() to fail.
ExchangeLiveSpec ==
    ExchangeSpec /\ WF_vars(NetdRecvLength) /\ WF_vars(NetdRecvResponse)

\* The daemon and its clients.
DaemonSpec == Init /\ [][DaemonNext]_vars

\* The network lifecycle manager called with a long network name.
LongNameNext ==
    \/ NetworkCreateOn(LongNetNames) \/ NetworkDestroyOn(LongNetNames)
    \/ NetworkSetFibOn(LongNetNames)
    \/ NetworkSetPhysicalInterfaceOn(LongNetNames)

LongNameSpec == Init /\ [][LongNameNext]_vars

\* The command layer, with VMs and networks that the managers created.
CmdSpec == Init /\ [][ExecuteCommand \/ VmCreate \/ NetworkCreate]_vars

----------------------------------------------------------------------------
(* Command layer: create and show                                          *)

\* C1: with storage, persistence and the network daemon all succeeding,
\* execute_command("create network <name> 10 em0") returns success with the
\* response "OK: Created network <name>", and execute_command("show network
\* <name>") then succeeds and reports fib 10, bridge bridge_<name> and physical
\* interface em0.
C1_CreateNetworkThenShow ==
    \A n \in NetNames :
        (/\ last.op = "execute_command"
         /\ last.line = <<"create", "network", n, "10", "em0">>
         /\ ~last.faulty)
        => /\ last.rc = 0
           /\ last.response = <<"OK: Created network %s", n>>
           /\ LET r == execute_command(Cur, <<"show", "network", n>>, {})
              IN  /\ r.rc = 0
                  /\ r.response =
                        <<"network_show",
                          [Network |-> n, Type |-> "bridge",
                           FibId |-> <<"1", "0">>, Bridge |-> BridgeName(n),
                           PhysicalInterface |-> "em0"]>>

\* C2: for a name that has no record, execute_command("create vm <name> 2
\* 1024") followed by execute_command("show vm <name>"), with every backend
\* call succeeding, is a round trip: the show succeeds and reports 2 CPU
\* cores, 1024 MB, boot device disk0 and state stopped.
C2_CreateVmShowRoundTrip ==
    [][\A n \in VmNames :
        (/\ vmcfg[n] = NoFile
         /\ last'.op = "execute_command"
         /\ last'.line = <<"create", "vm", n, "2", "1024">>
         /\ ~last'.faulty)
        => LET r == execute_command(Cur', <<"show", "vm", n>>, {})
           IN  /\ r.rc = 0
               /\ r.response =
                     <<"vm_show",
                       [VM |-> n, CPU |-> <<"2">>,
                        Memory |-> <<"1", "0", "2", "4">>,
                        BootDevice |-> "disk0", State |-> "stopped"]>>]_vars

----------------------------------------------------------------------------
(* VM lifecycle                                                            *)

\* The processes that run a VM.
Running(n) ==
    {p \in DOMAIN procs : procs[p].vm = n /\ procs[p].status = "running"}

\* No part of the storage layout of a VM exists.
VmLayoutAbsent(n) ==
    /\ \A d \in datasets : ~IsPrefix(VmPath(n), d)
    /\ vmcfg[n] = NoFile
    /\ pidfile[n] = NoPid

\* C3: vm_start is idempotent: when two consecutive vm_start calls on the
\* same VM both return success, the second one spawns no process and exactly
\* one process id is tracked for the VM.
C3_StartIdempotent ==
    [][\A n \in VmNames :
        (/\ last.op = "vm_start" /\ last.name = n /\ last.rc = 0
         /\ last'.op = "vm_start" /\ last'.name = n /\ last'.rc = 0)
        => /\ nextPid' = nextPid
           /\ pidfile'[n] # NoPid]_vars

\* C4: vm_stop is idempotent: when two consecutive vm_stop calls on a VM
\* whose record was Running both return success, the record is Stopped and no
\* process id is tracked for the VM.
C4_StopIdempotent ==
    [][\A n \in VmNames :
        (/\ last.op = "vm_stop" /\ last.name = n /\ last.rc = 0
         /\ last.was_running
         /\ last'.op = "vm_stop" /\ last'.name = n /\ last'.rc = 0)
        => /\ vmcfg'[n] # NoFile
           /\ vmcfg'[n].state = StateStr(VM_STATE_STOPPED)
           /\ pidfile'[n] = NoPid]_vars

\* C5: VM names are unique: at most one hypervisor process runs under any
\* given VM name.
C5_OneProcessPerName == \A n \in VmNames : Cardinality(Running(n)) <= 1

\* C6: vm_create on a name whose record already exists fails and leaves the
\* existing record as it was.
C6_CreateExistingFails ==
    [][\A n \in VmNames :
        (/\ vmcfg[n] # NoFile
         /\ last'.op = "vm_create" /\ last'.name = n)
        => /\ last'.rc = -1
           /\ vmcfg'[n] = vmcfg[n]]_vars

\* The storage layout of a VM after the step.
VmLayoutCompleteAfter(n) ==
    {VmPath(n), DisksPath(n), StatePath(n)} \subseteq datasets'

VmLayoutAbsentAfter(n) ==
    /\ \A d \in datasets' : ~IsPrefix(VmPath(n), d)
    /\ vmcfg'[n] = NoFile

\* C7: vm_create on a new name is all-or-nothing: when it returns failure no
\* part of the VM's storage layout exists afterwards, and when it returns
\* success the whole layout exists with a persisted record in state Stopped
\* and boot device disk0.
C7_VmCreateAllOrNothing ==
    [][\A n \in VmNames :
        (/\ VmLayoutAbsent(n)
         /\ last'.op = "vm_create" /\ last'.name = n)
        => IF last'.rc = 0
           THEN /\ VmLayoutCompleteAfter(n)
                /\ vmcfg'[n] # NoFile
                /\ vmcfg'[n].state = StateStr(VM_STATE_STOPPED)
                /\ vmcfg'[n].boot_device = "disk0"
           ELSE VmLayoutAbsentAfter(n)]_vars

----------------------------------------------------------------------------
(* Network lifecycle                                                       *)

\* C8: network_create is all-or-nothing: when it fails after the storage
\* area was allocated, the area does not exist afterwards and a show of that
\* network fails.
C8_NetworkCreateAllOrNothing ==
    \A n \in NetNames :
        (/\ last.op = "network_create" /\ last.name = n /\ last.rc = -1
         /\ Len(last.calls) > 1)
        => /\ NetworkPath(n) \notin datasets
           /\ network_show(Cur, n, {}).rc = -1

----------------------------------------------------------------------------
(* VM destruction                                                          *)

\* The storage calls of vm_destroy itself.
VmDestroyStorageFaults == {"libzfs_init", "zfs_destroy:vm"}

\* No part of the storage layout of a VM exists in a store.
VmLayoutAbsentIn(st, n) ==
    /\ \A d \in st.ds : ~IsPrefix(VmPath(n), d)
    /\ st.vmcfg[n] = NoFile
    /\ st.pidfile[n] = NoPid

----------------------------------------------------------------------------
(* Command layer: set                                                      *)

\* C11: for an existing VM and with no backend failure, execute_command on
\* "set vm <name> cpu 4" and on "set vm <name> memory 2048" succeeds and the
\* persisted record then holds that value, and on "set vm <name> cpu 33" and
\* "set vm <name> memory 32" it fails with the "ERROR: Invalid ..." message
\* of the property and leaves the persisted record unchanged.
C11_SetVmRange ==
    [][\A n \in VmNames :
        (/\ vmcfg[n] # NoFile
         /\ last'.op = "execute_command"
         /\ ~last'.faulty)
        => /\ last'.line = <<"set", "vm", n, "cpu", "4">>
                => (last'.rc = 0 /\ vmcfg'[n].cpu = <<"4">>)
           /\ last'.line = <<"set", "vm", n, "memory", "2048">>
                => (last'.rc = 0 /\ vmcfg'[n].memory = <<"2", "0", "4", "8">>)
           /\ last'.line = <<"set", "vm", n, "cpu", "33">>
                => /\ last'.rc = -1
                   /\ last'.response = <<"ERROR: Invalid CPU count (1-32)">>
                   /\ vmcfg' = vmcfg
           /\ last'.line = <<"set", "vm", n, "memory", "32">>
                => /\ last'.rc = -1
                   /\ last'.response =
                         <<"ERROR: Invalid memory size (64-1048576 MB)">>
                   /\ vmcfg' = vmcfg]_vars

\* C12: for an existing network and with no backend failure, execute_command
\* on "set network <name> fib 10" succeeds and the persisted fib_id is then
\* 10, and on "set network <name> fib 256" it fails with "ERROR: Invalid FIB
\* ID (0-255)" and leaves the persisted record unchanged.
C12_SetNetworkFibRange ==
    [][\A n \in NetNames :
        (/\ netcfg[n] # NoFile
         /\ last'.op = "execute_command"
         /\ ~last'.faulty)
        => /\ last'.line = <<"set", "network", n, "fib", "10">>
                => (last'.rc = 0 /\ netcfg'[n].fib_id = <<"1", "0">>)
           /\ last'.line = <<"set", "network", n, "fib", "256">>
                => /\ last'.rc = -1
                   /\ last'.response = <<"ERROR: Invalid FIB ID (0-255)">>
                   /\ netcfg' = netcfg]_vars

C14_BridgeNameIsPrefixedName ==
    \A n \in NetNames \cup LongNetNames :
        netcfg[n] # NoFile => netcfg[n].bridge_name = "bridge_" \o n

----------------------------------------------------------------------------
(* Command layer: parsing                                                  *)

\* The verbs of the command language.
Verbs == {"create", "destroy", "start", "stop", "set", "show", "list", "help"}

\* Lines whose first token is not a verb.
UnknownVerbLines ==
    {<<"frobnicate">>, <<"frobnicate", "vm", "t">>,
     <<"CREATE", "vm", "t", "2", "1024">>, <<"delete", "network", "net1">>}

\* C15: in every state, execute_command on a line with no token returns
\* failure with "ERROR: Empty command", and on a line whose first token is
\* not a verb returns failure with "ERROR: Unknown command '<token>'"; in both
\* cases the datasets, the records, the process-id files, the processes and
\* the network daemon are left as they were.
C15_EmptyAndUnknownRejected ==
    /\ \A line \in UnknownVerbLines : line[1] \notin Verbs
    /\ \A line \in UnknownVerbLines \cup {<<>>}, F \in SUBSET {"xml_load"} :
          LET r == execute_command(Cur, line, F)
          IN  /\ r.rc = -1
              /\ r.st = Cur
              /\ r.response =
                    IF line = <<>> THEN <<"ERROR: Empty command">>
                    ELSE <<"ERROR: Unknown command '%s'", line[1]>>
    /\ (last.op = "execute_command" /\ ~last.faulty /\ last.line = <<>>)
          => (last.rc = -1 /\ last.response = <<"ERROR: Empty command">>)
    /\ (last.op = "execute_command" /\ ~last.faulty
        /\ last.line = <<"frobnicate">>)
          => /\ last.rc = -1
             /\ last.response = <<"ERROR: Unknown command '%s'", "frobnicate">>

\* An unknown verb was rejected while a VM and a network existed.
C15_Witness ==
    /\ last.op = "execute_command"
    /\ last.line = <<"frobnicate">>
    /\ last.rc = -1
    /\ last.response = <<"ERROR: Unknown command '%s'", "frobnicate">>
    /\ \E n \in VmNames : vmcfg[n] # NoFile
    /\ \E n \in NetNames : netcfg[n] # NoFile

\* Requests with a missing token, an unknown noun or property, or a number
\* out of range.
MalformedLines ==
    {<<"create">>, <<"create", "vm">>, <<"create", "vm", "t">>,
     <<"create", "vm", "t", "2">>, <<"create", "network">>,
     <<"create", "network", "net1">>, <<"create", "disk", "d0">>,
     <<"create", "vm", "t", "33", "1024">>, <<"create", "vm", "t", "2", "32">>,
     <<"create", "network", "net1", "256">>,
     <<"show">>, <<"show", "vm">>, <<"show", "network">>, <<"show", "disk", "d0">>,
     <<"destroy">>, <<"destroy", "vm">>, <<"destroy", "disk", "d0">>,
     <<"start">>, <<"stop">>, <<"list">>, <<"list", "disk">>,
     <<"set">>, <<"set", "disk", "d0">>, <<"set", "vm">>, <<"set", "vm", "t">>,
     <<"set", "vm", "t", "cpu">>, <<"set", "vm", "t", "colour", "red">>,
     <<"set", "vm", "t", "cpu", "33">>, <<"set", "vm", "t", "cpu", "0">>,
     <<"set", "vm", "t", "memory", "32">>,
     <<"set", "network">>, <<"set", "network", "net1">>,
     <<"set", "network", "net1", "fib">>,
     <<"set", "network", "net1", "mtu", "9000">>,
     <<"set", "network", "net1", "fib", "256">>}

\* The response is an error message.
IsError(response) == SubSeq(response[1], 1, 6) = "ERROR:"

\* C16: in every state, execute_command on a malformed request returns
\* failure with a response that starts with "ERROR:" and leaves the datasets,
\* the records, the process-id files, the processes and the network daemon
\* as they were.
C16_MalformedRejectedUnchanged ==
    \A line \in MalformedLines, F \in SUBSET CommandFaults :
        LET r == execute_command(Cur, line, F)
        IN  /\ r.rc = -1
            /\ IsError(r.response)
            /\ r.st = Cur

\* An out-of-range set was rejected with an error while the VM existed.
C16_Witness ==
    /\ last.op = "execute_command"
    /\ last.line = <<"set", "vm", "t", "cpu", "33">>
    /\ last.rc = -1
    /\ IsError(last.response)
    /\ vmcfg["t"] # NoFile

-----------------------------------------------------------------------------
\* C17: for every failed command the response the daemon frames back to the
\* client is the "ERROR: <reason>" string the sub-handler produced,
\* forwarded unmodified.
C17_ErrorForwardedUnmodified ==
    (last.op = "respond" /\ last.rc # 0) => last.sent = last.response

\* C18: the daemon never executes two commands concurrently.  At most one
\* connection is accepted and not yet closed, it is the one being served,
\* a command is executed only for that connection, and whenever a request
\* is taken from a connection the daemon was waiting for a request on that
\* connection, with no command of any connection pending.
Accepted == {c \in Clients : socks[c].state = "accepted"}

C18_OneCommandAtATime ==
    /\ Cardinality(Accepted) <= 1
    /\ hvd.pc \in {"recv_len", "execute"} <=> Accepted = {hvd.client}
    /\ hvd.pc \notin {"recv_len", "execute"} => Accepted = {}
    /\ hvd.pc # "execute" => hvd.cmd = <<>>
    /\ last.op = "respond" /\ last.delivered /\ hvd.pc = "recv_len"
           => last.client = hvd.client

\* A second client has connected and written a request while the command
\* of the first is being executed.
C18_Witness ==
    /\ hvd.pc = "execute"
    /\ \E c \in Clients \ {hvd.client} :
           /\ socks[c].state = "backlog"
           /\ socks[c].wire # <<>>

\* C19: no operation failure terminates the daemon: after a failed command,
\* and after a response that could not be delivered because the client had
\* disconnected, the daemon process is still there.
C19_DaemonSurvives ==
    (last.op = "respond" /\ (last.rc # 0 \/ ~last.delivered))
        => hvd.pc # "killed"

\* C20: for a request that declares MAX_CMD_LEN bytes or more the daemon
\* reads no payload, executes no command and closes the connection.
C20_OversizeRejected ==
    (last.op = "recv" /\ last.declared >= MAX_CMD_LEN)
        => (~last.payload_read /\ last.closed /\ hvd.pc # "execute")

-----------------------------------------------------------------------------
\* The check a family's address has to pass: the address check of the
\* family or the prefix check.
Validated(address) ==
    \/ yang_validate_ip_prefix(address.ip) = 0
    \/ address.family = "ipv4" /\ yang_validate_ipv4_address(address.ip) = 0
    \/ address.family = "ipv6" /\ yang_validate_ipv6_address(address.ip) = 0

AddressesOf(config) ==
    {config.interfaces[i].addresses[j] :
        <<i, j>> \in {p \in (DOMAIN config.interfaces) \X (1..MAX_ADDRESSES_PER_INTERFACE) :
                        p[2] <= Len(config.interfaces[p[1]].addresses)}}

\* C21: no address enters a document unless it passed the validation
\* helpers: every address of a document that netd_add_interface_address
\* sent, and of a document built with yang_add_interface_address, passes
\* the check of its family.
C21_OnlyValidatedAddresses ==
    /\ (last.op = "netd_add_interface_address" /\ last.sent)
           => \A address \in AddressesOf(last.config) : Validated(address)
    /\ \A address \in AddressesOf(document) : Validated(address)

\* The components of s between the separators c.
RECURSIVE SplitOn(_, _)
SplitOn(s, c) ==
    LET i == Strchr(s, c)
    IN  IF i = 0 THEN <<s>>
        ELSE <<SubSeq(s, 1, i - 1)>> \o SplitOn(SubSeq(s, i + 1, Len(s)), c)

\* A decimal integer of lo..hi: digits and nothing else.
IsDecimalIn(s, lo, hi) ==
    /\ Len(s) \in 1..9
    /\ \A i \in 1..Len(s) : IsDigit(s[i])
    /\ AtoiFrom(s, 1, 0) \in lo..hi

\* Four dot-separated integers, each in 0..255.
IsIpv4(address) ==
    LET parts == SplitOn(Spell(address), ".")
    IN  /\ Len(parts) = 4
        /\ \A i \in 1..4 : IsDecimalIn(parts[i], 0, 255)

\* C22: yang_validate_ipv4_address accepts a string if and only if it
\* consists of four dot-separated integers each in 0..255.
C22_Ipv4AcceptedIffFourOctets ==
    last.op = "yang_validate_ipv4_address"
        => (last.rc = 0 <=> IsIpv4(last.address))

\* One "/" between an address part and a decimal length of 0..128; the
\* address part passes the IPv6 check when it holds a colon and the IPv4
\* check otherwise.
IsIpPrefix(prefix) ==
    LET parts == SplitOn(Spell(prefix), "/")
        address == SubSeq(prefix, 1, Len(parts[1]))
    IN  /\ Len(parts) = 2
        /\ IsDecimalIn(parts[2], 0, 128)
        /\ IF Strchr(parts[1], ":") # 0
           THEN yang_validate_ipv6_address(address) = 0
           ELSE yang_validate_ipv4_address(address) = 0

\* C23: yang_validate_ip_prefix accepts a string if and only if it splits
\* on a single "/" into an address part that passes the check of its family
\* and a decimal length in 0..128.
C23_PrefixAcceptedIffAddressSlashLength ==
    last.op = "yang_validate_ip_prefix"
        => (last.rc = 0 <=> IsIpPrefix(last.prefix))

WithinListBounds(config) ==
    /\ Len(config.interfaces) <= MAX_INTERFACES
    /\ Len(config.routes) <= MAX_ROUTES
    /\ \A i \in DOMAIN config.interfaces :
           Len(config.interfaces[i].addresses) <= MAX_ADDRESSES_PER_INTERFACE

\* C24: a document never holds more than 50 interfaces, 100 routes or 10
\* addresses per interface: an add issued at the bound, or with an interface
\* index outside 0..interface_count-1, returns -1 and leaves the document
\* as it was.
C24_AddFailsAtBound ==
    [][/\ WithinListBounds(document')
       /\ (last'.op = "yang_add_interface"
             /\ Len(document.interfaces) >= MAX_INTERFACES)
            => (last'.rc = -1 /\ document' = document)
       /\ (last'.op = "yang_add_route" /\ Len(document.routes) >= MAX_ROUTES)
            => (last'.rc = -1 /\ document' = document)
       /\ (last'.op = "yang_add_interface_address"
             /\ (\/ last'.interface_index < 0
                 \/ last'.interface_index >= Len(document.interfaces)
                 \/ Len(document.interfaces[last'.interface_index + 1].addresses)
                        >= MAX_ADDRESSES_PER_INTERFACE))
            => (last'.rc = -1 /\ document' = document)]_vars

\* Every list of the document is full and the last add was refused.
C24_Witness ==
    /\ Len(document.interfaces) = MAX_INTERFACES
    /\ Len(document.routes) = MAX_ROUTES
    /\ Len(document.interfaces[1].addresses) = MAX_ADDRESSES_PER_INTERFACE
    /\ last.op \in {"yang_add_interface", "yang_add_route",
                    "yang_add_interface_address"}
    /\ last.rc = -1

\* C25: while a document within the list bounds is rendered no write offset
\* exceeds the size of its buffer and no remaining-capacity subtraction
\* wraps below zero; a text that does not fit makes generation return -1.
C25_GenerationStaysInBuffer ==
    last.op = "yang_generate_config_xml"
        => /\ ~last.over
           /\ ~last.wrapped
           /\ last.offset >= 8192 => last.rc = -1

-----------------------------------------------------------------------------
(* Process supervision                                                     *)

\* The state in the persisted record of an existing VM.
PersistedState(n) == ParseState(vmcfg[n].state)

\* The calls of a vm_stop that got past the stop request, in their order.
StopOrders ==
    {<<"xml_load_vm_config", "read_pid", request>> \o polls
         \o <<"xml_save_vm_config", "unlink">> :
       request \in {"VM_SUSPEND", "SIGTERM"},
       polls \in {<<"waitpid_nohang">>,
                  <<"waitpid_nohang", "sleep", "waitpid_nohang">>,
                  <<"waitpid_nohang", "sleep", "waitpid_nohang", "SIGKILL",
                    "waitpid">>}}

\* C26: vm_stop on a Running VM reads the process id, requests a graceful
\* stop, polls once, waits and polls again only if the process is still
\* alive, and forces termination only if it is still alive then; every such
\* run that passes the stop request ends with the record Stopped and the
\* process-id slot cleared.
C26_StopOrderThenStopped ==
    \A n \in VmNames :
        (/\ last.op = "vm_stop" /\ last.name = n /\ last.was_running
         /\ last.rc = 0)
        => /\ last.calls \in StopOrders
           /\ vmcfg[n] # NoFile
           /\ PersistedState(n) = VM_STATE_STOPPED
           /\ pidfile[n] = NoPid

\* The call at which a vm_start or vm_stop gave up.
FailedAt(l) == l.calls[Len(l.calls)]

\* C27: a process-supervision failure leaves the record unchanged: a
\* vm_start that fails to open the hypervisor device or to fork, and a
\* vm_stop that fails to read the process id or to signal the process,
\* returns -1 and leaves the persisted record and the process-id slot as
\* they were.
C27_SupervisionFailureLeavesRecord ==
    [][\A n \in VmNames :
        (/\ last'.op \in {"vm_start", "vm_stop"}
         /\ last'.name = n
         /\ \/ last'.op = "vm_start" /\ FailedAt(last') \in {"open", "fork"}
            \/ last'.op = "vm_stop" /\ FailedAt(last') \in {"read_pid", "SIGTERM"})
        => /\ last'.rc = -1
           /\ vmcfg'[n] = vmcfg[n]
           /\ pidfile'[n] = pidfile[n]]_vars

\* A vm_start on a stopped VM failed at fork().
C27_Witness ==
    \E n \in VmNames :
        /\ last.op = "vm_start" /\ last.name = n /\ last.rc = -1
        /\ FailedAt(last) = "fork"
        /\ vmcfg[n] # NoFile
        /\ PersistedState(n) = VM_STATE_STOPPED
        /\ pidfile[n] = NoPid

\* C28: after every completed call a process id is recorded for a VM if
\* and only if the persisted state of that VM is Running.
C28_PidRecordedIffRunning ==
    \A n \in VmNames :
        pidfile[n] # NoPid
            <=> (vmcfg[n] # NoFile /\ PersistedState(n) = VM_STATE_RUNNING)

\* C29: the persisted state of an existing VM is changed only by vm_start,
\* to Running, and by vm_stop (also when vm_destroy forces it), to Stopped;
\* no operation persists the state Paused.
C29_StateChangedOnlyByStartStop ==
    [][\A n \in VmNames :
        /\ vmcfg'[n] # NoFile => ParseState(vmcfg'[n].state) # VM_STATE_PAUSED
        /\ (/\ vmcfg[n] # NoFile /\ vmcfg'[n] # NoFile
            /\ vmcfg'[n].state # vmcfg[n].state)
           => \/ /\ last'.op = "vm_start"
                 /\ ParseState(vmcfg'[n].state) = VM_STATE_RUNNING
              \/ /\ last'.op \in {"vm_stop", "vm_destroy"}
                 /\ ParseState(vmcfg'[n].state) = VM_STATE_STOPPED]_vars

\* C30: the VM state Error is reachable: when operations fail, the
\* persisted state of some VM becomes Error.
C30_ErrorReachable ==
    <>(\E n \in VmNames :
          vmcfg[n] # NoFile /\ PersistedState(n) = VM_STATE_ERROR)


----------------------------------------------------------------------------
(* The property setters of a network                                       *)

----------------------------------------------------------------------------
(* Tap interfaces                                                          *)

\* The strings an interface of a document carries to the network daemon.
InterfaceStrings(interface) ==
    {interface.name}
    \cup {interface.addresses[j].ip : j \in DOMAIN interface.addresses}

\* C32: a successful network_create_tap has sent a document that attaches
\* the tap to the bridge of the network: the document holds the tap as an
\* enabled interface with the FIB of the record, and it names the bridge of
\* the record.
C32_TapAttachedToBridge ==
    \A n \in NetNames :
        (last.op = "network_create_tap" /\ last.name = n /\ last.rc = 0)
        => /\ netcfg[n] # NoFile
           /\ \E i \in DOMAIN last.config.interfaces :
                /\ last.config.interfaces[i].name = last.tap
                /\ last.config.interfaces[i].enabled = 1
                /\ FmtDec(last.config.interfaces[i].fib) = netcfg[n].fib_id
           /\ \E i \in DOMAIN last.config.interfaces :
                netcfg[n].bridge_name \in InterfaceStrings(last.config.interfaces[i])

\* The rest of what is said of the taps: a network_create_tap whose record
\* does not load fails and leaves the network daemon as it was, a
\* successful one has sent a document of one interface, the tap, enabled
\* and in the FIB of the record, and neither call writes a record or a
\* dataset.
C32_TapCallsWriteNothing ==
    [][(last'.op \in {"network_create_tap", "network_remove_tap"})
        => /\ netcfg' = netcfg /\ vmcfg' = vmcfg /\ datasets' = datasets
           /\ pidfile' = pidfile
           /\ (last'.op = "network_create_tap" /\ netcfg[last'.name] = NoFile)
                => (last'.rc = -1 /\ netd' = netd
                    /\ last'.calls = <<"xml_load_network_config">>)
           /\ (last'.op = "network_create_tap" /\ last'.rc = 0)
                => last'.config.interfaces =
                       <<[name |-> last'.tap, enabled |-> 1,
                          fib |-> atoi(netcfg[last'.name].fib_id),
                          addresses |-> <<>>]>>]_vars


----------------------------------------------------------------------------
(* The exchange with the network daemon                                    *)

\* C33: when netd_send_yang_config has returned from an exchange in which
\* the network daemon announced a response of MAX_RESPONSE_LEN bytes or
\* more, it has returned -1 and stored no byte of it; when it has returned
\* 0 for a shorter announced response, the bytes stored are exactly the
\* announced number of response bytes; and the bytes stored plus the
\* terminator never exceed the buffer.
C33_ResponseLengthHonoured ==
    /\ (exchange.pc = "returned" /\ exchange.sent_prefix = 8
        /\ exchange.declared >= MAX_RESPONSE_LEN)
         => (exchange.rc = -1 /\ exchange.received = 0)
    /\ (exchange.pc = "returned" /\ exchange.rc = 0
        /\ exchange.declared < MAX_RESPONSE_LEN)
         => (exchange.received = exchange.declared
             /\ exchange.prefix_stored = 0)
    /\ exchange.received + 1 <= MAX_RESPONSE_LEN

\* What holds of it: nothing is ever written past the buffer, and when the
\* length prefix was received in one piece the announced length is
\* honoured.
C33_WithinBuffer ==
    /\ exchange.received + 1 <= MAX_RESPONSE_LEN
    /\ exchange.received <= exchange.len
    /\ (exchange.pc \in {"recv_body", "returned"}
        /\ exchange.len = exchange.declared /\ exchange.prefix_stored = 0
        /\ exchange.sent_prefix = 8)
         => /\ exchange.declared >= MAX_RESPONSE_LEN
                => (exchange.rc = -1 /\ exchange.received = 0)
            /\ (exchange.pc = "returned" /\ exchange.rc = 0)
                => exchange.received = exchange.declared

\* C40: once the network daemon has closed the connection of an exchange
\* that is waiting for the length prefix or for response bytes,
\* netd_send_yang_config returns.
C40_ReturnsAfterPeerClose ==
    (exchange.closed /\ exchange.pc \in {"recv_len", "recv_body"})
        ~> (exchange.pc = "returned")

\* The state the function stays in: the peer has closed, no byte is left to
\* receive, received is below len, and the loop has gone round with a recv()
\* of 0.
C40_Spinning ==
    /\ exchange.pc = "recv_body"
    /\ exchange.closed /\ exchange.spinning
    /\ exchange.wire_prefix + exchange.wire_body = 0
    /\ exchange.received < exchange.len


----------------------------------------------------------------------------
(* Arity checks of the sub-handlers                                        *)

\* The verbs whose handlers read further tokens, and the lines of
\* CommandLines that carry every token their handler requires.
ArityVerbs == {"create", "destroy", "start", "stop", "set", "show", "list"}

CompleteLines == {line \in CommandLines : Len(line) > 0 /\ line[1] \in ArityVerbs}

IsMissing(response) ==
    /\ Len(response[1]) >= 14
    /\ SubSeq(response[1], 1, 14) = "ERROR: Missing"

\* C34: execute_command on a line that carries every token its verb
\* requires never answers "ERROR: Missing ...": a sub-handler gives that
\* answer only for a token that is absent from the line.
C34_MissingOnlyWhenAbsent ==
    (last.op = "execute_command" /\ last.line \in CompleteLines)
        => ~IsMissing(last.response)


----------------------------------------------------------------------------
(* A create over an entity that exists                                     *)

\* C35: a network_create or vm_create that is called with the name of an
\* entity that exists (its datasets and its record are there) and that
\* fails leaves the datasets of the entity and its record as they were.
C35_FailedCreateKeepsExisting ==
    [][/\ \A n \in NetNames :
            (/\ last'.op = "network_create" /\ last'.name = n /\ last'.rc = -1
             /\ NetworkPath(n) \in datasets /\ netcfg[n] # NoFile)
            => (NetworkPath(n) \in datasets' /\ netcfg'[n] = netcfg[n])
       /\ \A n \in VmNames :
            (/\ last'.op = "vm_create" /\ last'.name = n /\ last'.rc = -1
             /\ {VmPath(n), DisksPath(n), StatePath(n)} \subseteq datasets
             /\ vmcfg[n] # NoFile)
            => ({VmPath(n), DisksPath(n), StatePath(n)} \subseteq datasets'
                /\ vmcfg'[n] = vmcfg[n])]_vars


----------------------------------------------------------------------------
(* The record of a running VM and its process                              *)

\* C36: in every state, when the record of a VM says Running and a process
\* id is recorded for it, the process of that id is one that was started
\* for this VM and is still running: a child that has exited is not left
\* recorded as Running.
C36_RunningMeansAlive ==
    \A n \in VmNames :
        (/\ vmcfg[n] # NoFile /\ PersistedState(n) = VM_STATE_RUNNING
         /\ pidfile[n] # NoPid)
        => pidfile[n] \in Running(n)


----------------------------------------------------------------------------
(* The record of a network and its bridge                                  *)

\* The bridge of the network is realized, enabled, on the network daemon.
BridgeEnabled(n) ==
    /\ BridgeName(n) \in DOMAIN netd
    /\ netd[BridgeName(n)].enabled = 1

\* C38: after every network_create and every network_destroy that has
\* returned, with success or with failure, the network has a record exactly
\* when its bridge is realized as enabled on the network daemon.
C38_RecordIffBridge ==
    \A n \in NetNames :
        (last.op \in {"network_create", "network_destroy"} /\ last.name = n)
        => (netcfg[n] # NoFile <=> BridgeEnabled(n))


----------------------------------------------------------------------------
(* Shutdown                                                                *)

\* C39: the daemon executes no request that a client wrote after the
\* signal handler had set the shutdown flag: every step that executes a
\* command and answers it is for a request written while running was set.
C39_NoCommandAfterShutdown ==
    [][(last'.op = "respond" /\ last.op = "recv") => ~last.late]_vars

\* What holds of it: a connection that is accepted after the flag was set
\* is closed with nothing read from it.
C39_LateConnectionNotServed ==
    [][(hvd.pc = "accept" /\ ~running)
         => (hvd'.pc \in {"accept", "exit"} /\ hvd'.client = NoClient)]_vars

====
